---- MODULE Spec2Model ----
(***************************************************************************)
(* Model of the algo-trading repository: the moving-average calculator     *)
(* (lib/sma.ts), the signal classifier (lib/trading-strategy.ts), the      *)
(* retrying request executor (lib/utils.ts), the batch runs (the analysis  *)
(* endpoint, the trading endpoint, the standalone script and               *)
(* executeTradingStrategy), the ticker preview, the ticker update, the      *)
(* reads of the ticker list (lib/ticker-queries.ts, lib/ticker-actions.ts), *)
(* the date check of the scheduled analysis endpoint and the ticker manager *)
(* of the dashboard (components/ticker-manager.tsx).                        *)
(*                                                                         *)
(* Numbers.  A JavaScript number is modelled as a record                   *)
(*   [kind |-> "fin", num |-> n, den |-> d]   the rational n/d, d > 0      *)
(*   [kind |-> "nan" | "inf" | "ninf", num |-> 0, den |-> 1]               *)
(* Arithmetic on finite values is exact rational arithmetic: prices are    *)
(* integers (a price in cents), so sums, the quotient sum/period and the   *)
(* deviation are exact; IEEE rounding of non-representable decimals is not *)
(* modelled.  Division by zero yields Infinity, -Infinity or NaN as in     *)
(* JavaScript, and every comparison with NaN is false.                     *)
(***************************************************************************)
EXTENDS Integers, Sequences, FiniteSets, TLC

VARIABLES
    prices,      \* calculateSMA call: the prices argument
    period,      \* calculateSMA call: the period argument
    smaResult,   \* calculateSMA call: outcome of the call
    provider,    \* what yahooFinance.historical answers for the symbol
    analysis,    \* outcome of analyzeTicker(symbol)
    maxRetries,  \* withRetry: the maxRetries argument
    baseDelay,   \* withRetry: the baseDelay argument (ms)
    fn,          \* withRetry: how the wrapped operation behaves
    pc,          \* withRetry: where the call stands
    i,           \* withRetry: the loop index
    lastError,   \* withRetry: the lastError local
    calls,       \* number of invocations of fn so far
    waits,       \* number of setTimeout waits started so far
    timer,       \* the wait in progress: attempt index, error, branch and delay
    fnOutcome,   \* how the latest invocation of fn settled
    outcome,     \* how withRetry settled
    entry,       \* batch run: "analysis" endpoint, "trading" endpoint or "script"
    request,     \* batch run: the headers of the HTTP request
    env,         \* batch run: process.env
    edgeConfig,  \* batch run: what Edge Config answers for the key "tickers"
    tickerFile,  \* batch run: config/tickers.json
    market,      \* batch run: per symbol, how the price provider answers
    telegramApi, \* batch run: leading attempts the Telegram API rejects
    brokerApi,   \* batch run: how the brokerage answers
    bpc,         \* batch run: where the run stands
    tickers,     \* batch run: the tickers local
    started,     \* batch run: analyses started in the current loop
    inFlight,    \* batch run: indices of the analyses awaited
    signals,     \* batch run: the analyses / signals local of the endpoint
    strategySignals, \* batch run: the signals local of executeTradingStrategy
    tradeIdx,    \* batch run: index of the trade loop
    response,    \* batch run: the HTTP response, or the exit of the script
    analysisLog, \* provider requests and analysis results so far
    sent,        \* attempts made on the Telegram API so far
    logins,      \* brokerage logins so far
    positionQueries, \* getPositions calls so far
    orders,      \* orders placed so far
    holdings,    \* shares held at the brokerage, per symbol
    history,     \* what each earlier run left behind
    previewBody, \* preview: the body of the POST request
    previewResponse, \* preview: the response
    updateVia,   \* ticker update: "action" (updateTickers) or "put" (PUT)
    updateInput, \* ticker update: the tickers argument
    updateEnv,   \* ticker update: process.env
    edgeApi,     \* ticker update: how the config API answers the PATCH
    remoteTickers, \* ticker update: the list stored in Edge Config
    patches,     \* ticker update: PATCH requests issued so far
    updateResult, \* ticker update: the result
    storeRead,   \* ticker read: how Edge Config answers get("tickers")
    localFile,   \* ticker read: config/tickers.json
    tickerCache, \* ticker read: the entry of unstable_cache, if any
    lastRead,    \* ticker read: the latest read and what it returned
    reads,       \* ticker read: reads made so far
    today,       \* scheduled analysis: the cron trigger and the date it runs on
    schedule,    \* scheduled analysis: what the endpoint did with the trigger
    initialTickers, \* ticker manager: the initialTickers prop
    pendingTickers, \* ticker manager: the pendingTickers state
    previewData, \* ticker manager: the previewData state
    previewCalls \* ticker manager: the previewTicker calls awaited

signalVars == <<prices, period, smaResult, provider, analysis>>

retryVars == <<maxRetries, baseDelay, fn, pc, i, lastError, calls, waits,
               timer, fnOutcome, outcome>>

inputVars == <<entry, request, env, edgeConfig, tickerFile, market,
               telegramApi, brokerApi>>

localVars == <<tickers, started, inFlight, signals, strategySignals, tradeIdx>>

effectVars == <<analysisLog, sent, logins, positionQueries, orders, holdings>>

batchVars == <<inputVars, localVars, effectVars, bpc, response, history>>

previewVars == <<previewBody, previewResponse>>

updateVars == <<updateVia, updateInput, updateEnv, edgeApi, remoteTickers,
                patches, updateResult>>

readVars == <<storeRead, localFile, tickerCache, lastRead, reads>>

scheduleVars == <<today, schedule>>

managerVars == <<initialTickers, pendingTickers, previewData, previewCalls>>

vars == <<signalVars, retryVars, batchVars, previewVars, updateVars, readVars,
          scheduleVars, managerVars>>

-----------------------------------------------------------------------------
(* Bounds of the model *)

\* longest prices argument of a direct calculateSMA call
MaxLen == 3
\* largest period argument of a direct calculateSMA call
MaxPeriod == 3
\* provider series lengths run over 0..MaxShort and
\* SMA_DAYS - MaxShort .. SMA_DAYS + MaxExtra
MaxShort == 1
MaxExtra == 1
\* largest maxRetries argument of a withRetry call
MaxRetries == 2
\* the wrapped operation fails up to MaxFails times before it succeeds
MaxFails == 3

\* prices of a direct calculateSMA call
PriceValues == {-1, 0, 2}

\* daily closes the provider may report (cents)
CloseValues == {-100, 0, 95, 99, 100, 101, 105}

-----------------------------------------------------------------------------
(* JavaScript numbers *)

Fin(n, d) == [kind |-> "fin", num |-> n, den |-> d]
Int2Js(n) == Fin(n, 1)
NaN == [kind |-> "nan", num |-> 0, den |-> 1]
PosInf == [kind |-> "inf", num |-> 0, den |-> 1]
NegInf == [kind |-> "ninf", num |-> 0, den |-> 1]

Abs(n) == IF n < 0 THEN -n ELSE n
Sign(n) == IF n < 0 THEN -1 ELSE IF n = 0 THEN 0 ELSE 1

\* a - b
JsSub(a, b) ==
    IF a.kind = "fin" /\ b.kind = "fin"
    THEN Fin(a.num * b.den - b.num * a.den, a.den * b.den)
    ELSE IF a.kind = "nan" \/ b.kind = "nan" THEN NaN
    ELSE IF a.kind = "fin" THEN (IF b.kind = "inf" THEN NegInf ELSE PosInf)
    ELSE IF b.kind = "fin" THEN a
    ELSE IF a.kind = b.kind THEN NaN ELSE a

\* a * b
JsMul(a, b) ==
    IF a.kind = "fin" /\ b.kind = "fin"
    THEN Fin(a.num * b.num, a.den * b.den)
    ELSE IF a.kind = "nan" \/ b.kind = "nan" THEN NaN
    ELSE LET sa == IF a.kind = "fin" THEN Sign(a.num)
                   ELSE IF a.kind = "inf" THEN 1 ELSE -1
             sb == IF b.kind = "fin" THEN Sign(b.num)
                   ELSE IF b.kind = "inf" THEN 1 ELSE -1
         IN  IF sa * sb = 0 THEN NaN
             ELSE IF sa * sb > 0 THEN PosInf ELSE NegInf

\* a / b for finite a, b: x/0 is +-Infinity, 0/0 is NaN
JsDiv(a, b) ==
    IF a.kind = "fin" /\ b.kind = "fin"
    THEN IF b.num = 0
         THEN (IF a.num > 0 THEN PosInf ELSE IF a.num < 0 THEN NegInf ELSE NaN)
         ELSE Fin(a.num * b.den * Sign(b.num), a.den * Abs(b.num))
    ELSE NaN

JsNeg(a) ==
    IF a.kind = "fin" THEN Fin(-a.num, a.den)
    ELSE IF a.kind = "inf" THEN NegInf
    ELSE IF a.kind = "ninf" THEN PosInf
    ELSE NaN

\* a < b ; false whenever an operand is NaN
JsLt(a, b) ==
    IF a.kind = "nan" \/ b.kind = "nan" THEN FALSE
    ELSE IF a.kind = "fin" /\ b.kind = "fin" THEN a.num * b.den < b.num * a.den
    ELSE IF a.kind = b.kind THEN FALSE
    ELSE a.kind = "ninf" \/ b.kind = "inf"

\* a > b
JsGt(a, b) == JsLt(b, a)

\* a === b on numbers
JsEq(a, b) ==
    IF a.kind = "nan" \/ b.kind = "nan" THEN FALSE
    ELSE IF a.kind = "fin" /\ b.kind = "fin" THEN a.num * b.den = b.num * a.den
    ELSE a.kind = b.kind

-----------------------------------------------------------------------------
(* lib/sma.ts *)

\* Array.prototype.slice(begin): a negative begin counts from the end
Slice(s, begin) ==
    LET start == IF begin < 0
                 THEN (IF Len(s) + begin < 0 THEN 0 ELSE Len(s) + begin)
                 ELSE (IF begin > Len(s) THEN Len(s) ELSE begin)
    IN  SubSeq(s, start + 1, Len(s))

\* Array.prototype.reduce((acc, price) => acc + price, 0) over s[lo..hi]: the
\* sum of the elements (exact addition is associative, so the sum is split in
\* halves to keep the evaluation shallow)
RECURSIVE SumRange(_, _, _)
SumRange(s, lo, hi) ==
    IF lo > hi THEN 0
    ELSE IF lo = hi THEN s[lo]
    ELSE LET mid == (lo + hi) \div 2
         IN  SumRange(s, lo, mid) + SumRange(s, mid + 1, hi)

ReduceSum(s) == SumRange(s, 1, Len(s))

Returned(v) == [threw |-> FALSE, value |-> v]
Threw(e) == [threw |-> TRUE, error |-> e]

\* the Error objects of lib/sma.ts: the message template and what it embeds
NotEnoughDataError(need, got) ==
    [text |-> "Not enough data points. Need ${period}, got ${prices.length}",
     need |-> need, got |-> got]
InsufficientDataError(need, got) ==
    [text |-> "Insufficient data for ${symbol}. Need at least 200 days, got ${priceData.length}",
     need |-> need, got |-> got]
NoHistoricalDataError ==
    [text |-> "No historical data found for ${symbol}"]

\* mutant: averages the first `period` elements instead of the last
calculateSMA_FirstN(ps, n) ==
    IF Len(ps) < n
    THEN Threw(NotEnoughDataError(n, Len(ps)))
    ELSE Returned(JsDiv(Int2Js(ReduceSum(SubSeq(ps, 1, n))), Int2Js(n)))

\* mutant: no length check, averages whatever slice(-period) yields
calculateSMA_NoCheck(ps, n) ==
    Returned(JsDiv(Int2Js(ReduceSum(Slice(ps, -n))), Int2Js(n)))

calculateSMA(ps, n) ==
    IF Len(ps) < n
    THEN Threw(NotEnoughDataError(n, Len(ps)))
    ELSE LET recentPrices == Slice(ps, -n)
             sum == ReduceSum(recentPrices)
         IN  Returned(JsDiv(Int2Js(sum), Int2Js(n)))

\* the window and the minimum row count of getCurrentPriceAndSMA
SMA_DAYS == 200
MIN_DAYS == 200

\* getHistoricalData: the provider throws, answers nothing, or answers rows
getHistoricalData(resp) ==
    IF resp.kind = "throws" THEN Threw(resp.error)
    ELSE IF resp.kind = "null" \/ Len(resp.closes) = 0
    THEN Threw(NoHistoricalDataError)
    ELSE Returned(resp.closes)

getCurrentPriceAndSMA(resp) ==
    LET fetched == getHistoricalData(resp)
    IN  IF fetched.threw THEN fetched
        ELSE LET closes == fetched.value
             IN  IF Len(closes) < MIN_DAYS
                 THEN Threw(InsufficientDataError(MIN_DAYS, Len(closes)))
                 ELSE LET sma == calculateSMA(closes, SMA_DAYS)
                      IN  IF sma.threw THEN sma
                          ELSE Returned([currentPrice |-> Int2Js(closes[Len(closes)]),
                                         sma200 |-> sma.value])

-----------------------------------------------------------------------------
(* lib/trading-strategy.ts *)

THRESHOLD_PERCENT == Fin(1, 100)

\* mutant: a deviation equal to the threshold already buys
IsAboveThreshold_Inclusive(deviation, threshold) ==
    JsGt(deviation, threshold) \/ JsEq(deviation, threshold)

\* deviation > threshold
IsAboveThreshold(deviation, threshold) == JsGt(deviation, threshold)

\* deviation < -threshold
IsBelowThreshold(deviation, threshold) == JsLt(deviation, JsNeg(threshold))

\* analyzeTicker: any failure of getCurrentPriceAndSMA is logged and rethrown
analyzeTicker(symbol, resp) ==
    LET got == getCurrentPriceAndSMA(resp)
    IN  IF got.threw THEN Threw(got.error)
        ELSE LET currentPrice == got.value.currentPrice
                 sma200 == got.value.sma200
                 deviation == JsDiv(JsSub(currentPrice, sma200), sma200)
                 threshold == THRESHOLD_PERCENT
                 action == IF IsAboveThreshold(deviation, threshold) THEN "buy"
                           ELSE IF IsBelowThreshold(deviation, threshold) THEN "sell"
                           ELSE "hold"
                 reason == IF action = "buy" THEN "above 200-day SMA - buying on momentum"
                           ELSE IF action = "sell" THEN "below 200-day SMA - selling on weakness"
                           ELSE "within 1.0% of 200-day SMA"
             IN  Returned([symbol |-> symbol,
                           action |-> action,
                           currentPrice |-> currentPrice,
                           sma200 |-> sma200,
                           deviation |-> deviation,
                           reason |-> reason])

-----------------------------------------------------------------------------
(* lib/utils.ts: withRetry *)

RATE_LIMITED == 429
MS_PER_SECOND == 1000
MIN_DELAY == 1000
MAX_DELAY == 60000

IsNaN(x) == x.kind = "nan"

\* Math.min and Math.max: NaN if an argument is NaN
MathMin(a, b) == IF IsNaN(a) \/ IsNaN(b) THEN NaN ELSE IF JsLt(b, a) THEN b ELSE a
MathMax(a, b) == IF IsNaN(a) \/ IsNaN(b) THEN NaN ELSE IF JsGt(b, a) THEN b ELSE a

RECURSIVE Pow2(_)
Pow2(n) == IF n = 0 THEN 1 ELSE 2 * Pow2(n - 1)

\* A retry-after header value: missing, the empty string, a numeric string
\* (seconds), an HTTP date (ms since the epoch) or an unparseable string
Absent == [kind |-> "absent", v |-> 0]
Empty == [kind |-> "empty", v |-> 0]
Seconds(n) == [kind |-> "seconds", v |-> n]
HttpDate(t) == [kind |-> "date", v |-> t]
Garbage == [kind |-> "garbage", v |-> 0]

\* truthiness of a header value: undefined and "" are falsy
Truthy(h) == h.kind \notin {"absent", "empty"}

\* Number(retryAfter)
NumberOf(h) ==
    IF h.kind = "seconds" THEN Int2Js(h.v)
    ELSE IF h.kind = "empty" THEN Int2Js(0)
    ELSE NaN

\* new Date(retryAfter).getTime()
DateGetTime(h) == IF h.kind = "date" THEN Int2Js(h.v) ELSE NaN

\* An error: error.response (status, retry-after header) when present,
\* error.status, error.headers["retry-after"], and whether error.message
\* contains "429".  A status of 0 stands for a missing (or zero) status.
NoResponse == [present |-> FALSE, status |-> 0, retryAfter |-> Absent]

\* mutant: the message text is looked at before the structured status
StatusOf_MessageFirst(err) ==
    IF err.has429 THEN RATE_LIMITED
    ELSE IF err.response.status # 0 THEN err.response.status
    ELSE err.status

\* err.response?.status || err.status || (err.message?.includes("429") ? 429 : null)
\* (null is 0 here)
StatusOf(err) ==
    IF err.response.status # 0 THEN err.response.status
    ELSE IF err.status # 0 THEN err.status
    ELSE IF err.has429 THEN RATE_LIMITED
    ELSE 0

\* err.response?.headers?.["retry-after"] || err.headers?.["retry-after"]
RetryAfterOf(err) ==
    IF Truthy(err.response.retryAfter) THEN err.response.retryAfter
    ELSE err.retryAfter

\* mutant: the exponent is the attempt number, so the first wait is doubled
ExponentialDelay_OffByOne(base, attempt) ==
    JsMul(Int2Js(base), Int2Js(Pow2(attempt + 1)))

\* baseDelay * 2 ** i
ExponentialDelay(base, attempt) == JsMul(Int2Js(base), Int2Js(Pow2(attempt)))

\* the delay of the 429 branch, clamped
RateLimitDelay(err, base, attempt, now) ==
    LET retryAfter == RetryAfterOf(err)
        delay == IF Truthy(retryAfter)
                 THEN IF IsNaN(NumberOf(retryAfter))
                      THEN JsSub(DateGetTime(retryAfter), Int2Js(now))
                      ELSE JsMul(NumberOf(retryAfter), Int2Js(MS_PER_SECOND))
                 ELSE ExponentialDelay(base, attempt)
    IN  MathMax(Int2Js(MIN_DELAY), MathMin(delay, Int2Js(MAX_DELAY)))

\* mutant: the last attempt is not recognised, so a wait follows it
IsLastAttempt_Never(attempt, max) == FALSE

\* if (i === maxRetries) break
IsLastAttempt(attempt, max) == attempt = max

\* mutant: the loop runs one attempt short
LoopContinues_Short(attempt, max) == attempt < max

\* the loop condition i <= maxRetries
LoopContinues(attempt, max) == attempt <= max

NoError == [undefined |-> TRUE]
NoTimer == [attempt |-> -1]
Pending == [status |-> "pending"]

Statuses == {0, RATE_LIMITED, 500}
Hints ==
    {Absent, Empty, Garbage,
     Seconds(-5), Seconds(0), Seconds(2), Seconds(120), Seconds(1000000),
     HttpDate(20000), HttpDate(80000), HttpDate(900000)}
\* errors that differ in where the status is found
StatusErrors ==
    {[response |-> r, status |-> s, retryAfter |-> h, has429 |-> m] :
        r \in {NoResponse}
               \cup {[present |-> TRUE, status |-> rs, retryAfter |-> Absent] :
                        rs \in Statuses},
        s \in Statuses, h \in {Absent, Seconds(30)}, m \in BOOLEAN}
\* errors that differ in the retry-after header and where it is found
HintErrors ==
    {[response |-> [present |-> TRUE, status |-> rs, retryAfter |-> rh],
      status |-> 0, retryAfter |-> h, has429 |-> FALSE] :
        rs \in {RATE_LIMITED, 500}, rh \in Hints, h \in {Absent, Seconds(30)}}
    \cup {[response |-> NoResponse, status |-> RATE_LIMITED,
           retryAfter |-> h, has429 |-> FALSE] : h \in Hints}
Errors == StatusErrors \cup HintErrors
\* what Date.now() may answer
ClockValues == {50000, 70000}
\* what the wrapped operation may resolve to
Values == {"sent", "queued"}
BaseDelays == {500, 2000, 40000}

-----------------------------------------------------------------------------
(* Inputs of the signal specification *)

\* all sequences over S of length at most n
SeqsUpTo(S, n) == UNION {[1..k -> S] : k \in 0..n}

\* a series of n closes: level a, then level b on the last k days
Series(n, a, b, k) == [day \in 1..n |-> IF day > n - k THEN b ELSE a]

SeriesLens == (0..MaxShort) \cup ((SMA_DAYS - MaxShort)..(SMA_DAYS + MaxExtra))
TailLens == {0, 1, SMA_DAYS \div 2, SMA_DAYS}

ProviderErrors ==
    {[text |-> "Not Found"],
     [text |-> "No data found, symbol may be delisted"],
     [text |-> "Too Many Requests"]}

ProviderResponses ==
    {[kind |-> "rows", closes |-> Series(n, a, b, k)] :
        n \in SeriesLens, a \in CloseValues, b \in CloseValues,
        k \in TailLens}
    \cup {[kind |-> "null"]}
    \cup {[kind |-> "throws", error |-> e] : e \in ProviderErrors}

Symbol == "SPY"

Idle == [status |-> "idle"]
Off == [status |-> "off"]
Done(out) == [status |-> "done", out |-> out]

-----------------------------------------------------------------------------
(* Strings, headers and process.env *)

\* a header or environment variable: missing, or present with a value
Unset == [present |-> FALSE, value |-> ""]
Str(v) == [present |-> TRUE, value |-> v]

\* JavaScript truthiness of string | null | undefined
IsTruthy(h) == h.present /\ h.value # ""

\* `Bearer ${cronSecret}`
Bearer(secret) == IF secret = "s3cret" THEN "Bearer s3cret" ELSE "Bearer "

\* mutant: every request counts as a scheduler request
IsCronRequest_Always(req) == TRUE

\* isCronRequest: headers.get("user-agent")?.includes("vercel-cron") ||
\* headers.get("x-vercel-cron")
IsCronRequest(req) ==
    \/ req.userAgent.present /\ req.userAgent.value = "vercel-cron/1.0"
    \/ IsTruthy(req.xVercelCron)

\* isCronRequest && cronSecret && authHeader !== `Bearer ${cronSecret}`
Unauthorized(req, e) ==
    /\ IsCronRequest(req)
    /\ IsTruthy(e.CRON_SECRET)
    /\ ~(/\ req.authorization.present
         /\ req.authorization.value = Bearer(e.CRON_SECRET.value))

\* process.env.DRY_RUN === "true" || process.env.DRY_RUN === "1" (endpoint)
EndpointDryRun(e) == e.DRY_RUN.present /\ e.DRY_RUN.value \in {"true", "1"}

\* mutant: the script never takes the run for a dry run
ScriptDryRun_Never(e) == FALSE

\* process.env.DRY_RUN === 'true' (standalone script)
ScriptDryRun(e) == e.DRY_RUN.present /\ e.DRY_RUN.value = "true"

\* !process.env.ROBINHOOD_USERNAME || !process.env.ROBINHOOD_PASSWORD
HasBrokerCredentials(e) ==
    IsTruthy(e.ROBINHOOD_USERNAME) /\ IsTruthy(e.ROBINHOOD_PASSWORD)

-----------------------------------------------------------------------------
(* Loading the ticker list *)

\* what readFileSync and get("tickers") throw
LoadError(source) ==
    IF source = "file"
    THEN [text |-> "ENOENT: no such file or directory, open 'config/tickers.json'"]
    ELSE [text |-> "@vercel/edge-config: No connection string provided"]

\* loadTickers.  The trading endpoint and the script read the file
\* [ok, tickers].  The analysis endpoint asks Edge Config first, which
\* throws, answers null or answers a list [kind, tickers]; it takes a
\* non-empty list, else the file, and when both fail the first error
loadTickers(who, edge, file) ==
    IF who = "analysis" /\ edge.kind = "list" /\ Len(edge.tickers) > 0
    THEN Returned(edge.tickers)
    ELSE IF file.ok THEN Returned(file.tickers)
    ELSE IF who = "analysis" /\ edge.kind = "throws"
    THEN Threw(LoadError("edge"))
    ELSE Threw(LoadError("file"))

-----------------------------------------------------------------------------
(* The price provider *)

Symbols == {"AAPL", "SPY"}

\* how the provider answers for a symbol: closes ending above, below or at
\* the average, one row too few, no rows, an unknown symbol, or a rate
\* limit on the first request only
Scenarios ==
    {"up", "down", "flat", "short", "empty", "unknown", "limited", "turns"}

\* yahooFinance.historical: the answer to the nth request for a symbol
Historical(scenario, nth) ==
    CASE scenario = "up" ->
            [kind |-> "rows", closes |-> Series(SMA_DAYS, 100, 105, 1)]
      [] scenario = "down" ->
            [kind |-> "rows", closes |-> Series(SMA_DAYS, 100, 95, 1)]
      [] scenario = "flat" ->
            [kind |-> "rows", closes |-> Series(SMA_DAYS, 100, 100, 0)]
      [] scenario = "short" ->
            [kind |-> "rows", closes |-> Series(SMA_DAYS - 1, 100, 100, 0)]
      [] scenario = "empty" ->
            [kind |-> "rows", closes |-> <<>>]
      [] scenario = "unknown" ->
            [kind |-> "throws", error |-> [text |-> "Not Found"]]
      [] scenario = "limited" ->
            IF nth = 1
            THEN [kind |-> "throws", error |-> [text |-> "Too Many Requests"]]
            ELSE [kind |-> "rows", closes |-> Series(SMA_DAYS, 100, 105, 1)]
      [] scenario = "turns" ->
            IF nth = 1
            THEN [kind |-> "rows", closes |-> Series(SMA_DAYS, 100, 95, 1)]
            ELSE [kind |-> "rows", closes |-> Series(SMA_DAYS, 100, 105, 1)]

\* requests made so far for a symbol: the log holds a "fetch" event per
\* provider request and a "result" event per settled analysis, with the
\* message of the error when the analysis threw
FetchCount(log, symbol) ==
    Cardinality({n \in 1..Len(log) :
                    log[n].kind = "fetch" /\ log[n].symbol = symbol})

-----------------------------------------------------------------------------
(* The analysis loops *)

\* mutant: the next analysis starts without awaiting the previous one
AwaitsPrevious_Never(pending) == TRUE

\* for (const ticker of tickers) { ... await analyzeTicker(ticker) ... }:
\* the next iteration starts when the awaited analysis has settled
AwaitsPrevious(pending) == pending = {}

\* the entry pushed by the catch block of the trading endpoint
ErrorEntry(ticker, error) ==
    [symbol |-> ticker,
     action |-> "error",
     currentPrice |-> Int2Js(0),
     sma200 |-> Int2Js(0),
     deviation |-> Int2Js(0),
     reason |-> IF error.text # "" THEN error.text ELSE "Failed to analyze"]

\* mutant: every loop records a failed analysis as an error entry
Collect_Records(recordsErrors, list, ticker, out) ==
    IF ~out.threw THEN Append(list, out.value)
    ELSE Append(list, ErrorEntry(ticker, out.error))

\* the rest of a loop iteration once analyzeTicker has settled: push the
\* signal; on failure the trading endpoint pushes an error entry, the
\* analysis endpoint and executeTradingStrategy only log
Collect(recordsErrors, list, ticker, out) ==
    IF ~out.threw THEN Append(list, out.value)
    ELSE IF recordsErrors THEN Append(list, ErrorEntry(ticker, out.error))
    ELSE list

-----------------------------------------------------------------------------
(* Delivery: lib/telegram.ts *)

TELEGRAM_RETRIES == 2

\* mutant: the service is created without its credentials
createTelegramService_NoCheck(e) == Returned("TelegramService")

\* createTelegramService: both variables are required
createTelegramService(e) ==
    IF ~IsTruthy(e.TELEGRAM_BOT_TOKEN)
    THEN Threw([text |-> "TELEGRAM_BOT_TOKEN environment variable is required"])
    ELSE IF ~IsTruthy(e.TELEGRAM_CHAT_ID)
    THEN Threw([text |-> "TELEGRAM_CHAT_ID environment variable is required"])
    ELSE Returned("TelegramService")

\* withRetry(fn, 2, 3000) around one bot call that rejects its first `fails`
\* attempts: the attempts made, in order, each with whether it was accepted
Attempts(kind, fails) ==
    [n \in 1..(IF LoopContinues(fails, TELEGRAM_RETRIES)
               THEN fails + 1 ELSE TELEGRAM_RETRIES + 1) |->
        [kind |-> kind, ok |-> n > fails]]

\* mutant: the error of withRetry is logged and swallowed
Send_Swallows(kind, fails) == Returned(kind)

\* sendMessage / sendPhoto: rethrows what withRetry throws
Send(kind, fails) ==
    IF LoopContinues(fails, TELEGRAM_RETRIES) THEN Returned(kind)
    ELSE Threw([text |-> "ETELEGRAM: 502 Bad Gateway"])

-----------------------------------------------------------------------------
(* The brokerage: lib/robinhood.ts as used by executeTradingStrategy *)

\* pos.instrument.split("/"): the URL of a position's instrument ends with
\* the symbol, or with an instrument id and a slash
InstrumentParts(style, symbol) ==
    IF style = "symbol"
    THEN <<"https:", "", "api.robinhood.com", "instruments", symbol>>
    ELSE <<"https:", "", "api.robinhood.com", "instruments", "id", "">>

\* getPositions: symbol = pos.instrument.split("/").pop() || ""
getPositions(held, style) ==
    LET symbolOrder == <<"AAPL", "SPY">>
        parts(symbol) == InstrumentParts(style, symbol)
        all == [n \in 1..Len(symbolOrder) |->
                   [symbol |-> parts(symbolOrder[n])[Len(parts(symbolOrder[n]))],
                    quantity |-> held[symbolOrder[n]]]]
        IsHeld(pos) == pos.quantity > 0
    IN  SelectSeq(all, IsHeld)

\* positions.find((p) => p.symbol === symbol)?.quantity || 0
CurrentQuantity(positions, symbol) ==
    LET matches == {n \in 1..Len(positions) : positions[n].symbol = symbol}
    IN  IF matches = {} THEN 0
        ELSE positions[CHOOSE n \in matches : \A m \in matches : n <= m].quantity

\* parseFloat(process.env.TRADE_AMOUNT || "1000")
TradeAmount(e) ==
    IF ~IsTruthy(e.TRADE_AMOUNT) THEN Int2Js(1000)
    ELSE IF e.TRADE_AMOUNT.value = "50" THEN Int2Js(50)
    ELSE NaN

\* Math.floor
MathFloor(x) == IF x.kind = "fin" THEN Fin(x.num \div x.den, 1) ELSE x

\* mutant: the quantity is not tested before the order is placed
OrdersFor_NoGuard(signal, currentQuantity, e) ==
    IF signal.action = "buy"
    THEN <<[symbol |-> signal.symbol,
           quantity |-> MathFloor(JsDiv(TradeAmount(e), signal.currentPrice)),
           side |-> "buy", orderType |-> "market"]>>
    ELSE <<[symbol |-> signal.symbol, quantity |-> Int2Js(currentQuantity),
           side |-> "sell", orderType |-> "market"]>>

\* the orders one trade-loop iteration places for a buy or sell signal
OrdersFor(signal, currentQuantity, e) ==
    IF signal.action = "buy"
    THEN LET quantity == MathFloor(JsDiv(TradeAmount(e), signal.currentPrice))
         IN  IF JsGt(quantity, Int2Js(0))
             THEN <<[symbol |-> signal.symbol, quantity |-> quantity,
                    side |-> "buy", orderType |-> "market"]>>
             ELSE <<>>
    ELSE IF signal.action = "sell" /\ currentQuantity > 0
    THEN <<[symbol |-> signal.symbol, quantity |-> Int2Js(currentQuantity),
           side |-> "sell", orderType |-> "market"]>>
    ELSE <<>>

\* mutant: an error of one iteration ends the trade loop
TradeLoopGoesOn_Rethrows(idx, count, threw) == idx < count /\ ~threw

\* the try/catch inside the trade loop: an error of getPositions, buyOrder
\* or sellOrder is logged and the loop goes on to the next signal
TradeLoopGoesOn(idx, count, threw) == idx < count

\* the brokerage fills a market order at once
Fill(held, placed) ==
    IF placed = <<>> \/ placed[1].quantity.kind # "fin" THEN held
    ELSE [held EXCEPT ![placed[1].symbol] =
            IF placed[1].side = "buy" THEN @ + placed[1].quantity.num
            ELSE @ - placed[1].quantity.num]

-----------------------------------------------------------------------------
(* Responses *)

\* the JSON body and status of a response (list: analyses or signals, when
\* the body carries them), or the exit of the script
Json(status, success, error, message, carries, list) ==
    [status |-> status, success |-> success, error |-> error,
     message |-> message, carries |-> carries, list |-> list]

\* the responses of the endpoints (the script exits with a code instead):
\* the secret check, the outer catch block, the catch block around
\* delivery, the catch block around login, and the completed run
Respond(who, how, message, list) ==
    CASE how = "unauthorized" ->
            Json(401, "none", "Unauthorized", "", FALSE, <<>>)
      [] how = "failed" /\ who = "analysis" ->
            Json(500, "none", "Market analysis failed", message, FALSE, <<>>)
      [] how = "failed" /\ who = "trading" ->
            Json(500, "none", "Trading bot execution failed", message,
                 FALSE, <<>>)
      [] how = "delivery" ->
            Json(500, "false", "Failed to send Telegram notification",
                 message, TRUE, list)
      [] how = "login" /\ who = "trading" ->
            Json(401, "none", "Authentication failed", message, TRUE, list)
      [] how \in {"failed", "login"} /\ who = "script" ->
            Json(1, "none", "Bot execution failed", message, FALSE, <<>>)
      [] how = "completed" /\ who = "analysis" ->
            Json(200, "true", "", message, TRUE,
                 [n \in 1..Len(list) |->
                     [symbol |-> list[n].symbol,
                      action |-> list[n].action,
                      currentPrice |-> list[n].currentPrice,
                      sma200 |-> list[n].sma200,
                      deviation |-> list[n].deviation]])
      [] how = "completed" /\ who = "trading" ->
            Json(200, "true", "", message, TRUE, list)
      [] how = "completed" /\ who = "script" ->
            Json(0, "none", "", message, FALSE, <<>>)

-----------------------------------------------------------------------------
(* The ticker preview: app/api/tickers/preview/route.ts and previewTicker *)

\* String.prototype.trim on the strings of the model
Trim(text) ==
    CASE text \in {"", "  "} -> ""
      [] text = " spy " -> "spy"
      [] OTHER -> text

\* String.prototype.toUpperCase on the strings of the model
ToUpperCase(text) == IF text = "spy" THEN "SPY" ELSE text

\* errorMessage.includes("Not Found") || errorMessage.includes("No data
\* found") || errorMessage.includes("Invalid ticker"): of the messages of
\* the provider and of lib/sma.ts, these contain one of the three
IsTickerNotFound(message) ==
    message \in {"Not Found", "No data found, symbol may be delisted"}

\* POST (via = "route") and previewTicker (via = "action", no status).  The
\* catch block of POST builds the friendly message from body.ticker, and
\* `body` is declared inside the try block: where it is out of scope the
\* handler throws and the framework answers 500
previewTicker(via, ticker, resp, bodyInScope) ==
    LET status(code) == IF via = "route" THEN code ELSE 0
        normalizedTicker == ToUpperCase(Trim(ticker.value))
        out == analyzeTicker(normalizedTicker, resp)
    IN  IF ~IsTruthy(ticker)
        THEN Json(status(400), IF via = "route" THEN "none" ELSE "false",
                  "Ticker symbol is required and must be a string", "",
                  FALSE, <<>>)
        ELSE IF normalizedTicker = ""
        THEN Json(status(400), IF via = "route" THEN "none" ELSE "false",
                  "Ticker symbol cannot be empty", "", FALSE, <<>>)
        ELSE IF ~out.threw
        THEN Json(status(200), "true", "", "", TRUE, <<out.value>>)
        ELSE IF IsTickerNotFound(out.error.text) /\ via = "route" /\ ~bodyInScope
        THEN Json(500, "none", "Internal Server Error", "", FALSE, <<>>)
        ELSE IF IsTickerNotFound(out.error.text)
        THEN Json(status(404), "false",
                  "Ticker \"${ticker}\" not found. Please verify the symbol is correct.",
                  "", FALSE, <<>>)
        ELSE Json(status(500), "false", out.error.text, "", FALSE, <<>>)

-----------------------------------------------------------------------------
(* The ticker update: updateTickers and PUT of app/api/tickers/route.ts *)

\* tickers.filter((ticker) => typeof ticker !== "string" ||
\* ticker.trim().length === 0): an entry is Str(text), or Unset when it is
\* not a string
InvalidTickers(items) ==
    LET IsInvalid(item) == ~item.present \/ Trim(item.value) = ""
    IN  SelectSeq(items, IsInvalid)

\* mutant: only the type of an entry is validated
ValidationError_TypeOnly(input) ==
    IF ~input.isArray THEN "Tickers must be an array"
    ELSE IF \E n \in 1..Len(input.items) : ~input.items[n].present
    THEN "All tickers must be non-empty strings"
    ELSE ""

\* the validation of the tickers argument: the error, or "" when it passes
ValidationError(input) ==
    IF ~input.isArray THEN "Tickers must be an array"
    ELSE IF Len(InvalidTickers(input.items)) > 0
    THEN "All tickers must be non-empty strings"
    ELSE ""

\* the checks of process.env that follow: the error, or "" when they pass
ConfigError(e) ==
    IF ~IsTruthy(e.EDGE_CONFIG)
    THEN "Edge Config is not configured. Please set EDGE_CONFIG environment variable."
    ELSE IF ~IsTruthy(e.VERCEL_API_TOKEN) \/ ~IsTruthy(e.EDGE_CONFIG_ID)
    THEN "Missing VERCEL_API_TOKEN or EDGE_CONFIG_ID environment variables"
    ELSE ""

\* what the handler answers: a status for PUT, none for updateTickers
UpdateResult(via, status, success, error, list) ==
    Json(IF via = "put" THEN status ELSE 0, success, error,
         IF success = "true"
         THEN "Tickers updated successfully in Edge Config" ELSE "",
         success = "true", list)

-----------------------------------------------------------------------------
(* Reads of the ticker list: lib/ticker-queries.ts and getTickers of        *)
(* lib/ticker-actions.ts                                                    *)

\* what await get("tickers") gives: the stored list, undefined, or an error
EdgeGet(mode, stored) ==
    IF mode = "ok" THEN [kind |-> "list", tickers |-> stored]
    ELSE [kind |-> mode, tickers |-> <<>>]

\* mutant: the read gives up when Edge Config has no list
getTickersUncached_NoFallback(edge, file) ==
    IF edge.kind = "list"
    THEN [tickers |-> edge.tickers, source |-> "edge-config", error |-> Unset]
    ELSE [tickers |-> <<>>, source |-> "file",
          error |-> Str("Failed to load tickers from both Edge Config and file")]

\* getTickersUncached, and getTickers of lib/ticker-actions.ts, which has
\* the same body: the list of Edge Config when it is an array, else the
\* file; a failure of the first readFileSync is caught with the failure of
\* get, and the file is read once more
getTickersUncached(edge, file) ==
    IF edge.kind = "list"
    THEN [tickers |-> edge.tickers, source |-> "edge-config", error |-> Unset]
    ELSE IF edge.kind = "null" /\ file.ok
    THEN [tickers |-> file.tickers, source |-> "file", error |-> Unset]
    ELSE IF file.ok
    THEN [tickers |-> file.tickers, source |-> "file",
          error |-> Str(LoadError("edge").text)]
    ELSE [tickers |-> <<>>, source |-> "file",
          error |-> Str("Failed to load tickers from both Edge Config and file")]

-----------------------------------------------------------------------------
(* The date check of the scheduled analysis endpoint *)

\* tomorrow.setDate(tomorrow.getDate() + 1); tomorrow.getDate(): the day
\* after the last day of a month is the 1st
TomorrowsDate(date) ==
    IF date.day = date.monthLength THEN 1 ELSE date.day + 1

\* isLastDayOfMonth
isLastDayOfMonth(date) == TomorrowsDate(date) = 1

\* dayOfMonth >= 28 && dayOfMonth <= 31 && !isLastDayOfMonth()
SkipsTrigger(date) ==
    date.day >= 28 /\ date.day <= 31 /\ ~isLastDayOfMonth(date)

-----------------------------------------------------------------------------
(* Components that take no part in a run *)

\* no batch run is part of the run
BatchOff ==
    /\ entry = "off"
    /\ request = Unset
    /\ env = Unset
    /\ edgeConfig = Unset
    /\ tickerFile = Unset
    /\ market = Unset
    /\ telegramApi = Unset
    /\ brokerApi = Unset
    /\ bpc = "off"
    /\ tickers = <<>>
    /\ started = 0
    /\ inFlight = {}
    /\ signals = <<>>
    /\ strategySignals = <<>>
    /\ tradeIdx = 0
    /\ response = Unset
    /\ analysisLog = <<>>
    /\ sent = <<>>
    /\ logins = 0
    /\ positionQueries = 0
    /\ orders = <<>>
    /\ holdings = Unset
    /\ history = <<>>

\* no preview is part of the run
PreviewOff ==
    /\ previewBody = Unset
    /\ previewResponse = Unset

\* no ticker update is part of the run
UpdateOff ==
    /\ updateVia = "off"
    /\ updateInput = Unset
    /\ updateEnv = Unset
    /\ edgeApi = "off"
    /\ remoteTickers = <<>>
    /\ patches = 0
    /\ updateResult = Unset
    /\ storeRead = "off"
    /\ localFile = Unset
    /\ tickerCache = <<>>
    /\ lastRead = Unset
    /\ reads = 0

\* no cron trigger is part of the run
ScheduleOff ==
    /\ today = Unset
    /\ schedule = "off"

\* no ticker manager is part of the run
ManagerOff ==
    /\ initialTickers = <<>>
    /\ pendingTickers = <<>>
    /\ previewData = Unset
    /\ previewCalls = <<>>

\* no withRetry call is part of the run
RetryOff ==
    /\ maxRetries = 0
    /\ baseDelay = 0
    /\ fn = [always |-> FALSE, fails |-> 0]
    /\ pc = "off"
    /\ i = 0
    /\ lastError = NoError
    /\ calls = 0
    /\ waits = 0
    /\ timer = NoTimer
    /\ fnOutcome = Pending
    /\ outcome = Pending

\* either a direct call of calculateSMA is pending, or an analysis is
InitSignal ==
    /\ ScheduleOff
    /\ ManagerOff
    /\ RetryOff
    /\ BatchOff
    /\ PreviewOff
    /\ UpdateOff
    /\ \/ /\ prices \in SeqsUpTo(PriceValues, MaxLen)
          /\ period \in 1..MaxPeriod
          /\ smaResult = Idle
          /\ provider = [kind |-> "null"]
          /\ analysis = Off
       \/ /\ prices = <<>>
          /\ period = SMA_DAYS
          /\ smaResult = Off
          /\ provider \in ProviderResponses
          /\ analysis = Idle

CallCalculateSMA ==
    /\ smaResult = Idle
    /\ smaResult' = Done(calculateSMA(prices, period))
    /\ UNCHANGED <<prices, period, provider, analysis>>
    /\ UNCHANGED retryVars

CallAnalyzeTicker ==
    /\ analysis = Idle
    /\ analysis' = Done(analyzeTicker(Symbol, provider))
    /\ UNCHANGED <<prices, period, smaResult, provider>>
    /\ UNCHANGED retryVars

otherVars == <<batchVars, previewVars, updateVars, readVars, scheduleVars,
               managerVars>>

NextSignal ==
    \/ (CallCalculateSMA /\ UNCHANGED otherVars)
    \/ (CallAnalyzeTicker /\ UNCHANGED otherVars)

SpecSignal == InitSignal /\ [][NextSignal]_vars

-----------------------------------------------------------------------------
(* The withRetry specification *)

\* the operation fails its first fn.fails invocations, or every one
FnFails(call) == fn.always \/ call <= fn.fails

SignalOff ==
    /\ prices = <<>>
    /\ period = SMA_DAYS
    /\ smaResult = Off
    /\ provider = [kind |-> "null"]
    /\ analysis = Off

InitRetry ==
    /\ ScheduleOff
    /\ ManagerOff
    /\ SignalOff
    /\ BatchOff
    /\ PreviewOff
    /\ UpdateOff
    /\ maxRetries \in 0..MaxRetries
    /\ baseDelay \in BaseDelays
    /\ fn \in {[always |-> FALSE, fails |-> k] : k \in 0..MaxFails}
              \cup {[always |-> TRUE, fails |-> 0]}
    /\ pc = IF LoopContinues(0, maxRetries) THEN "attempt" ELSE "threw"
    /\ i = 0
    /\ lastError = NoError
    /\ calls = 0
    /\ waits = 0
    /\ timer = NoTimer
    /\ fnOutcome = Pending
    /\ outcome = Pending

\* one pass of the loop body when fn resolves: return await fn()
AttemptSucceeds ==
    /\ pc = "attempt"
    /\ ~FnFails(calls + 1)
    /\ \E v \in Values :
          /\ fnOutcome' = Returned(v)
          /\ outcome' = Returned(v)
    /\ calls' = calls + 1
    /\ pc' = "returned"
    /\ UNCHANGED <<maxRetries, baseDelay, fn, i, lastError, waits, timer>>

\* one pass of the loop body when fn rejects: the catch block, up to the
\* break (followed by throw lastError) or to the start of the wait
AttemptFails ==
    /\ pc = "attempt"
    /\ FnFails(calls + 1)
    /\ calls' = calls + 1
    /\ \E error \in Errors, now \in ClockValues :
          /\ fnOutcome' = Threw(error)
          /\ lastError' = error
          /\ IF IsLastAttempt(i, maxRetries)
             THEN /\ pc' = "threw"
                  /\ outcome' = Threw(lastError')
                  /\ UNCHANGED <<waits, timer>>
             ELSE /\ pc' = "sleeping"
                  /\ waits' = waits + 1
                  /\ timer' =
                        [attempt |-> i,
                         error |-> error,
                         now |-> now,
                         rateLimited |-> (StatusOf(error) = RATE_LIMITED),
                         delay |-> IF StatusOf(error) = RATE_LIMITED
                                   THEN RateLimitDelay(error, baseDelay, i, now)
                                   ELSE ExponentialDelay(baseDelay, i)]
                  /\ UNCHANGED outcome
    /\ UNCHANGED <<maxRetries, baseDelay, fn, i>>

\* the timer of the wait fires: i++ and the loop condition; leaving the loop
\* reaches throw lastError
TimerFires ==
    /\ pc = "sleeping"
    /\ i' = i + 1
    /\ IF LoopContinues(i + 1, maxRetries)
       THEN pc' = "attempt" /\ UNCHANGED outcome
       ELSE pc' = "threw" /\ outcome' = Threw(lastError)
    /\ timer' = NoTimer
    /\ UNCHANGED <<maxRetries, baseDelay, fn, lastError, calls, waits,
                   fnOutcome>>

NextRetry ==
    \/ (AttemptSucceeds /\ UNCHANGED <<signalVars, otherVars>>)
    \/ (AttemptFails /\ UNCHANGED <<signalVars, otherVars>>)
    \/ (TimerFires /\ UNCHANGED <<signalVars, otherVars>>)

SpecRetry == InitRetry /\ [][NextRetry]_vars

-----------------------------------------------------------------------------
(* Claims about the signal pipeline, checked under SpecSignal *)

AnalysisReturned == analysis.status = "done" /\ ~analysis.out.threw
AnalysisThrew == analysis.status = "done" /\ analysis.out.threw
SmaCallDone == smaResult.status = "done"

\* rows the provider delivered (none when it answered nothing)
NumCloses == IF provider.kind = "rows" THEN Len(provider.closes) ELSE 0

\* price and average of the returned signal over the common denominator
\* currentPrice.den * sma200.den > 0
SignalPrice == analysis.out.value.currentPrice.num * analysis.out.value.sma200.den
SignalAverage == analysis.out.value.sma200.num * analysis.out.value.currentPrice.den
AveragePositive ==
    /\ analysis.out.value.sma200.kind = "fin"
    /\ analysis.out.value.sma200.num > 0

\* sum of the last n elements of s, one index at a time
RECURSIVE TailSum(_, _)
TailSum(s, n) == IF n = 0 THEN 0 ELSE s[Len(s) - n + 1] + TailSum(s, n - 1)

SameLastN(q, r, n) == \A j \in 1..n : q[Len(q) - n + j] = r[Len(r) - n + j]

C2_InclusiveThreshold ==
    (AnalysisReturned /\ AveragePositive) =>
        LET action == analysis.out.value.action
            excess == 100 * (SignalPrice - SignalAverage)
        IN  /\ (excess >= SignalAverage) => (action = "buy")
            /\ (excess <= -SignalAverage) => (action = "sell")
            /\ (action = "hold") =>
                   (excess < SignalAverage /\ excess > -SignalAverage)

\* C3 (as stated): when the moving average of the delivered closes is zero
\* or negative, analyzeTicker fails and produces no signal.
C3_NonPositiveAverageFails ==
    (/\ analysis.status = "done"
     /\ provider.kind = "rows"
     /\ NumCloses >= SMA_DAYS
     /\ SumRange(provider.closes, NumCloses - SMA_DAYS + 1, NumCloses) <= 0)
        => analysis.out.threw

\* C4: with at least N prices calculateSMA returns the arithmetic mean of
\* exactly the last N; prices before the last N never influence the result.
\* The 200-day average of a returned signal is the mean of the last 200
\* closes.
C4_MeanOfLastN ==
    /\ (SmaCallDone /\ Len(prices) >= period) =>
          /\ ~smaResult.out.threw
          /\ JsEq(smaResult.out.value, Fin(TailSum(prices, period), period))
          /\ \A q \in SeqsUpTo(PriceValues, MaxLen) :
                (Len(q) >= period /\ SameLastN(q, prices, period))
                    => calculateSMA(q, period) = smaResult.out
    /\ AnalysisReturned =>
          JsEq(analysis.out.value.sma200,
               Fin(SumRange(provider.closes, NumCloses - SMA_DAYS + 1, NumCloses),
                   SMA_DAYS))

\* C4 witness: a call with more prices than the window, whose oldest price
\* differs from the newest, has returned
C4_Witness ==
    /\ SmaCallDone
    /\ Len(prices) > period
    /\ prices[1] # prices[Len(prices)]
    /\ ~smaResult.out.threw

\* C5 (as stated): with fewer prices than the window, calculateSMA and the
\* per-ticker pipeline fail with an insufficient-data error that reports the
\* required and the actual count.
C5_ShortDataReportsCounts ==
    /\ (SmaCallDone /\ Len(prices) < period) =>
          /\ smaResult.out.threw
          /\ smaResult.out.error.need = period
          /\ smaResult.out.error.got = Len(prices)
    /\ (analysis.status = "done" /\ provider.kind # "throws"
            /\ NumCloses < MIN_DAYS) =>
          /\ analysis.out.threw
          /\ "need" \in DOMAIN analysis.out.error
          /\ analysis.out.error.need = MIN_DAYS
          /\ analysis.out.error.got = NumCloses

\* C5 (amended): with fewer prices than the window no average and no signal
\* is produced.  calculateSMA fails reporting required and actual count; the
\* pipeline fails reporting them when it has 1..199 closes, and with "No
\* historical data found" (no counts) when the provider delivered no rows.
C5_ShortDataFails ==
    /\ (SmaCallDone /\ Len(prices) < period) =>
          /\ smaResult.out.threw
          /\ smaResult.out.error.need = period
          /\ smaResult.out.error.got = Len(prices)
    /\ (analysis.status = "done" /\ provider.kind # "throws"
            /\ NumCloses < MIN_DAYS) =>
          /\ analysis.out.threw
          /\ (NumCloses >= 1) =>
                /\ "need" \in DOMAIN analysis.out.error
                /\ analysis.out.error.need = MIN_DAYS
                /\ analysis.out.error.got = NumCloses
          /\ (NumCloses = 0) => analysis.out.error = NoHistoricalDataError

\* C5 witness: an analysis over 199 closes has failed
C5_Witness ==
    /\ AnalysisThrew
    /\ provider.kind = "rows"
    /\ NumCloses = MIN_DAYS - 1

-----------------------------------------------------------------------------
(* Claims about withRetry, checked under SpecRetry *)

Waiting == pc = "sleeping"

\* min(max(d, 1000), 60000) on integers
ClampMs(d) == IF d < MIN_DELAY THEN MIN_DELAY ELSE IF d > MAX_DELAY THEN MAX_DELAY ELSE d

\* C6: an operation that fails exactly k <= maxRetries times and then
\* succeeds is invoked exactly k + 1 times with exactly k waits, one between
\* consecutive attempts; nothing is invoked after the success, and withRetry
\* returns the value the operation resolved to.
C6_SucceedsAfterKFailures ==
    (pc # "off" /\ ~fn.always /\ fn.fails <= maxRetries) =>
        /\ pc # "threw"
        /\ calls <= fn.fails + 1
        /\ (pc \in {"attempt", "sleeping"}) => (waits = calls /\ ENABLED NextRetry)
        /\ (pc = "returned") =>
              /\ calls = fn.fails + 1
              /\ waits = fn.fails
              /\ ~outcome.threw
              /\ outcome = fnOutcome
              /\ ~ENABLED NextRetry

\* C6 witness: a call returned after as many failures as maxRetries allows
C6_Witness ==
    /\ pc = "returned"
    /\ ~fn.always
    /\ fn.fails = maxRetries
    /\ fn.fails >= 1

\* C7: an operation that always fails is invoked exactly maxRetries + 1
\* times with exactly maxRetries waits (none after the final attempt), and
\* then withRetry throws the last error the operation raised, unchanged.
C7_AlwaysFailsRethrows ==
    (pc # "off" /\ fn.always) =>
        /\ pc # "returned"
        /\ calls <= maxRetries + 1
        /\ waits <= maxRetries
        /\ (pc \in {"attempt", "sleeping"}) => ENABLED NextRetry
        /\ (pc = "threw") =>
              /\ calls = maxRetries + 1
              /\ waits = maxRetries
              /\ fnOutcome.threw
              /\ outcome = Threw(fnOutcome.error)
              /\ ~ENABLED NextRetry

\* C7 witness: a call gave up after at least one retry
C7_Witness ==
    /\ pc = "threw"
    /\ fn.always
    /\ maxRetries >= 1
    /\ calls = maxRetries + 1

\* C8 (as stated): the wait after a rate-limited failure at attempt i is
\* min(max(d, 1000), 60000) with d the hint in seconds times 1000 (numeric
\* hint), the hint's time minus now (timestamp hint) or baseDelay * 2^i (no
\* hint); for every hint, unparseable ones included, it lies in
\* [1000, 60000] ms.
C8_RateLimitedWaitClamped ==
    (Waiting /\ timer.rateLimited) =>
        LET hint == RetryAfterOf(timer.error)
        IN  /\ timer.delay.kind = "fin"
            /\ timer.delay.den = 1
            /\ timer.delay.num >= MIN_DELAY
            /\ timer.delay.num <= MAX_DELAY
            /\ (hint.kind = "seconds") =>
                   timer.delay.num = ClampMs(hint.v * MS_PER_SECOND)
            /\ (hint.kind = "date") =>
                   timer.delay.num = ClampMs(hint.v - timer.now)
            /\ (hint.kind = "absent") =>
                   timer.delay.num = ClampMs(baseDelay * 2^timer.attempt)

\* C9: the wait after a failure that is not rate-limited at attempt i
\* (0-based, the (i+1)-th wait) is exactly baseDelay * 2^i ms, unclamped.
C9_PlainBackoffUnclamped ==
    (Waiting /\ ~timer.rateLimited) =>
        /\ timer.attempt = i
        /\ timer.attempt = waits - 1
        /\ timer.delay = Fin(baseDelay * 2^timer.attempt, 1)

\* C9 witness: a plain backoff wait above the 60000 ms cap of the 429 branch
C9_Witness ==
    /\ Waiting
    /\ ~timer.rateLimited
    /\ timer.attempt >= 1
    /\ timer.delay.num > MAX_DELAY

\* C10 (as stated): a failure is rate-limited whenever error.response.status
\* or error.status is 429 or the message contains "429", whatever the other
\* fields hold, and not rate-limited otherwise.
C10_AnySignalRateLimits ==
    Waiting =>
        (timer.rateLimited <=>
            \/ timer.error.response.status = RATE_LIMITED
            \/ timer.error.status = RATE_LIMITED
            \/ timer.error.has429)

\* C10 (amended): a failure is rate-limited exactly when the first present
\* one of error.response.status, error.status is 429, or neither is present
\* and the message contains "429"; a present status other than 429 overrides
\* the signals after it.
C10_FirstSignalRateLimits ==
    Waiting =>
        (timer.rateLimited <=>
            \/ timer.error.response.status = RATE_LIMITED
            \/ /\ timer.error.response.status = 0
               /\ timer.error.status = RATE_LIMITED
            \/ /\ timer.error.response.status = 0
               /\ timer.error.status = 0
               /\ timer.error.has429)

\* C10 witness: a retry after an error with response status 500 whose
\* message contains "429" took the plain backoff branch
C10_Witness ==
    /\ Waiting
    /\ timer.error.response.status = 500
    /\ timer.error.has429
    /\ ~timer.rateLimited

-----------------------------------------------------------------------------
(* Inputs of the batch specification *)

\* longest ticker list
MaxTickers == 2
\* consecutive runs over the same inputs
MaxRuns == 2
\* leading attempts the Telegram API may reject
MaxSendFails == 3

Entries == {"analysis", "trading", "script"}

Requests ==
    {[userAgent |-> agent, xVercelCron |-> marker, authorization |-> auth] :
        agent \in {Unset, Str("Mozilla/5.0"), Str("vercel-cron/1.0")},
        marker \in {Unset, Str(""), Str("1")},
        auth \in {Unset, Str("Bearer s3cret"), Str("Bearer wrong"), Str("s3cret")}}

\* a manual run of the analysis endpoint over AAPL (up) and SPY (down), with
\* every credential set, nothing held and the dry run switched on
BaseInput ==
    [entry |-> "analysis",
     request |-> [userAgent |-> Str("Mozilla/5.0"), xVercelCron |-> Unset,
                  authorization |-> Unset],
     env |-> [CRON_SECRET |-> Unset,
              DRY_RUN |-> Str("true"),
              ROBINHOOD_USERNAME |-> Str("user"),
              ROBINHOOD_PASSWORD |-> Str("password"),
              TELEGRAM_BOT_TOKEN |-> Str("token"),
              TELEGRAM_CHAT_ID |-> Str("chat"),
              TRADE_AMOUNT |-> Unset],
     edgeConfig |-> [kind |-> "null", tickers |-> <<>>],
     tickerFile |-> [ok |-> TRUE, tickers |-> <<"AAPL", "SPY">>],
     market |-> [symbol \in Symbols |-> IF symbol = "AAPL" THEN "up" ELSE "down"],
     telegramApi |-> [messageFails |-> 0, photoFails |-> 0],
     brokerApi |-> [loginOk |-> TRUE, urlStyle |-> "symbol",
                    positionsDown |-> {}, ordersRejected |-> {}],
     holdings |-> [symbol \in Symbols |-> 0]]

\* the runs of the model: the base run varied in its ticker list and market,
\* in its request and secret, in its ticker stores, in its delivery and in
\* its brokerage, and in the failures of its brokerage
Inputs ==
    {[BaseInput EXCEPT !.entry = who, !.tickerFile.tickers = list,
                       !.market = scenarios, !.env.DRY_RUN = dry] :
        who \in Entries, list \in SeqsUpTo(Symbols, MaxTickers),
        scenarios \in [Symbols -> Scenarios], dry \in {Str("true"), Str("false")}}
    \cup
    {[BaseInput EXCEPT !.entry = who, !.request = req,
                       !.env.CRON_SECRET = secret] :
        who \in {"analysis", "trading"}, req \in Requests,
        secret \in {Unset, Str(""), Str("s3cret")}}
    \cup
    {[BaseInput EXCEPT !.entry = who, !.edgeConfig = edge, !.tickerFile = file] :
        who \in Entries,
        edge \in {[kind |-> "throws", tickers |-> <<>>],
                  [kind |-> "null", tickers |-> <<>>],
                  [kind |-> "list", tickers |-> <<>>],
                  [kind |-> "list", tickers |-> <<"SPY">>]},
        file \in {[ok |-> FALSE, tickers |-> <<>>],
                  [ok |-> TRUE, tickers |-> <<"AAPL">>]}}
    \cup
    {[BaseInput EXCEPT !.market["SPY"] = spy,
                       !.env.TELEGRAM_BOT_TOKEN = token,
                       !.env.TELEGRAM_CHAT_ID = chat,
                       !.telegramApi = [messageFails |-> mf, photoFails |-> pf]] :
        spy \in {"down", "unknown"},
        token \in {Unset, Str(""), Str("token")},
        chat \in {Unset, Str(""), Str("chat")},
        mf \in 0..MaxSendFails, pf \in 0..MaxSendFails}
    \cup
    {[BaseInput EXCEPT !.entry = who, !.env.DRY_RUN = dry,
                       !.env.ROBINHOOD_USERNAME = user,
                       !.env.ROBINHOOD_PASSWORD = password,
                       !.env.TRADE_AMOUNT = amount,
                       !.brokerApi.loginOk = ok,
                       !.brokerApi.urlStyle = style,
                       !.holdings["SPY"] = held] :
        who \in {"trading", "script"},
        dry \in {Unset, Str("true"), Str("1"), Str("false")},
        user \in {Unset, Str("user")}, password \in {Unset, Str("password")},
        amount \in {Unset, Str("50")}, ok \in BOOLEAN,
        style \in {"symbol", "id"}, held \in {0, 5}}
    \cup
    {[BaseInput EXCEPT !.entry = who, !.env.DRY_RUN = Str("false"),
                       !.market["SPY"] = spy,
                       !.brokerApi.positionsDown = down,
                       !.brokerApi.ordersRejected = rejected,
                       !.holdings["SPY"] = held] :
        who \in {"trading", "script"}, spy \in {"down", "up", "flat"},
        down \in SUBSET Symbols, rejected \in SUBSET Symbols,
        held \in {0, 5}}

\* no response yet
Unanswered == Json(0, "pending", "", "", FALSE, <<>>)

-----------------------------------------------------------------------------
(* The batch specification: the analysis endpoint (GET), the trading        *)
(* endpoint (GET), the standalone script (runTradingBot) and                *)
(* executeTradingStrategy                                                   *)

InitBatch ==
    /\ ScheduleOff
    /\ ManagerOff
    /\ RetryOff
    /\ SignalOff
    /\ PreviewOff
    /\ UpdateOff
    /\ \E input \in Inputs :
          /\ entry = input.entry
          /\ request = input.request
          /\ env = input.env
          /\ edgeConfig = input.edgeConfig
          /\ tickerFile = input.tickerFile
          /\ market = input.market
          /\ telegramApi = input.telegramApi
          /\ brokerApi = input.brokerApi
          /\ holdings = input.holdings
    /\ bpc = "start"
    /\ tickers = <<>>
    /\ started = 0
    /\ inFlight = {}
    /\ signals = <<>>
    /\ strategySignals = <<>>
    /\ tradeIdx = 0
    /\ response = Unanswered
    /\ analysisLog = <<>>
    /\ sent = <<>>
    /\ logins = 0
    /\ positionQueries = 0
    /\ orders = <<>>
    /\ history = <<>>

\* the run up to its first await: the secret check of an endpoint, the
\* credential check of the script, and loadTickers
Begin ==
    /\ bpc = "start"
    /\ LET loaded == loadTickers(entry, edgeConfig, tickerFile)
       IN  IF entry # "script" /\ Unauthorized(request, env)
           THEN /\ response' = Respond(entry, "unauthorized", "", <<>>)
                /\ bpc' = "done"
                /\ UNCHANGED tickers
           ELSE IF entry = "script" /\ ~HasBrokerCredentials(env)
           THEN /\ response' =
                      Respond(entry, "failed",
                              "ROBINHOOD_USERNAME and ROBINHOOD_PASSWORD must be set in .env file",
                              <<>>)
                /\ bpc' = "done"
                /\ UNCHANGED tickers
           ELSE IF loaded.threw
           THEN /\ response' = Respond(entry, "failed", loaded.error.text, <<>>)
                /\ bpc' = "done"
                /\ UNCHANGED tickers
           ELSE /\ tickers' = loaded.value
                /\ bpc' = IF entry = "script" THEN "login"
                          ELSE IF Len(loaded.value) = 0 THEN "analyzed"
                          ELSE "analyze"
                /\ UNCHANGED response
    /\ UNCHANGED <<inputVars, started, inFlight, signals, strategySignals,
                   tradeIdx, effectVars, history>>

\* a loop iteration up to its await: analyzeTicker asks the provider
StartAnalysis ==
    /\ bpc \in {"analyze", "strategy"}
    /\ started < Len(tickers)
    /\ AwaitsPrevious(inFlight)
    /\ started' = started + 1
    /\ inFlight' = inFlight \cup {started + 1}
    /\ analysisLog' =
          Append(analysisLog,
                 [kind |-> "fetch", idx |-> started + 1,
                  symbol |-> tickers[started + 1], threw |-> FALSE,
                  reason |-> ""])
    /\ UNCHANGED <<inputVars, tickers, signals, strategySignals, tradeIdx,
                   sent, logins, positionQueries, orders, holdings, bpc,
                   response, history>>

\* the provider answers, analyzeTicker settles, and the iteration ends
FinishAnalysis ==
    /\ bpc \in {"analyze", "strategy"}
    /\ \E idx \in inFlight :
          LET ticker == tickers[idx]
              out == analyzeTicker(ticker,
                                   Historical(market[ticker],
                                              FetchCount(analysisLog, ticker)))
              last == started = Len(tickers) /\ inFlight = {idx}
          IN  /\ inFlight' = inFlight \ {idx}
              /\ analysisLog' =
                    Append(analysisLog,
                           [kind |-> "result", idx |-> idx,
                            symbol |-> ticker, threw |-> out.threw,
                            reason |-> IF out.threw THEN out.error.text
                                       ELSE ""])
              /\ IF bpc = "analyze"
                 THEN /\ signals' =
                            Collect(entry = "trading", signals, ticker, out)
                      /\ bpc' = IF last THEN "analyzed" ELSE bpc
                      /\ UNCHANGED strategySignals
                 ELSE /\ strategySignals' =
                            Collect(FALSE, strategySignals, ticker, out)
                      /\ bpc' = IF last THEN "strategyDone" ELSE bpc
                      /\ UNCHANGED signals
    /\ UNCHANGED <<inputVars, tickers, started, tradeIdx, sent, logins,
                   positionQueries, orders, holdings, response, history>>

\* analysis endpoint after the loop: the empty check and
\* createTelegramService
Summarize ==
    /\ bpc = "analyzed"
    /\ entry = "analysis"
    /\ LET service == createTelegramService(env)
       IN  IF Len(signals) = 0
           THEN /\ response' =
                      Respond(entry, "failed",
                              "No tickers were successfully analyzed", <<>>)
                /\ bpc' = "done"
           ELSE IF service.threw
           THEN /\ response' =
                      Respond(entry, "delivery", service.error.text, signals)
                /\ bpc' = "done"
           ELSE /\ bpc' = "sendMessage"
                /\ UNCHANGED response
    /\ UNCHANGED <<inputVars, localVars, effectVars, history>>

\* await telegram.sendMessage(message)
SendMessage ==
    /\ bpc = "sendMessage"
    /\ sent' = sent \o Attempts("message", telegramApi.messageFails)
    /\ LET out == Send("message", telegramApi.messageFails)
       IN  IF out.threw
           THEN /\ response' =
                      Respond(entry, "delivery", out.error.text, signals)
                /\ bpc' = "done"
           ELSE /\ bpc' = "sendPhoto"
                /\ UNCHANGED response
    /\ UNCHANGED <<inputVars, localVars, analysisLog, logins, positionQueries,
                   orders, holdings, history>>

\* await telegram.sendPhoto(summaryChartUrl, caption), and the response
SendPhoto ==
    /\ bpc = "sendPhoto"
    /\ sent' = sent \o Attempts("photo", telegramApi.photoFails)
    /\ LET out == Send("photo", telegramApi.photoFails)
       IN  response' =
              IF out.threw
              THEN Respond(entry, "delivery", out.error.text, signals)
              ELSE Respond(entry, "completed",
                           "Weekly market analysis completed and sent to Telegram",
                           signals)
    /\ bpc' = "done"
    /\ UNCHANGED <<inputVars, localVars, analysisLog, logins, positionQueries,
                   orders, holdings, history>>

\* trading endpoint after the loop: if (!dryRun) and the credential check
DecideLive ==
    /\ bpc = "analyzed"
    /\ entry = "trading"
    /\ IF EndpointDryRun(env)
       THEN /\ response' =
                  Respond(entry, "completed",
                          "Trading bot analysis completed (DRY RUN - No trades executed)",
                          signals)
            /\ bpc' = "done"
       ELSE IF ~HasBrokerCredentials(env)
       THEN /\ response' =
                  Respond(entry, "failed",
                          "ROBINHOOD_USERNAME and ROBINHOOD_PASSWORD must be set for live trading",
                          <<>>)
            /\ bpc' = "done"
       ELSE /\ bpc' = "login"
            /\ UNCHANGED response
    /\ UNCHANGED <<inputVars, localVars, effectVars, history>>

\* await robinhoodClient.login(...); then executeTradingStrategy is entered
Login ==
    /\ bpc = "login"
    /\ logins' = logins + 1
    /\ IF brokerApi.loginOk
       THEN /\ started' = 0
            /\ bpc' = IF Len(tickers) = 0 THEN "strategyDone" ELSE "strategy"
            /\ UNCHANGED response
       ELSE /\ response' =
                  Respond(entry, "login",
                          "Failed to authenticate with Robinhood: Authentication failed - check your credentials",
                          signals)
            /\ bpc' = "done"
            /\ UNCHANGED started
    /\ UNCHANGED <<inputVars, tickers, inFlight, signals, strategySignals,
                   tradeIdx, analysisLog, sent, positionQueries, orders,
                   holdings, history>>

\* executeTradingStrategy after its analysis loop: if (dryRun) return; the
\* endpoint passes false, the script passes DRY_RUN === 'true'
DecideTrades ==
    /\ bpc = "strategyDone"
    /\ IF (entry = "script" /\ ScriptDryRun(env)) \/ Len(strategySignals) = 0
       THEN /\ response' =
                  Respond(entry, "completed",
                          IF entry = "trading"
                          THEN "Trading bot execution completed"
                          ELSE "Bot execution complete",
                          signals)
            /\ bpc' = "done"
            /\ UNCHANGED tradeIdx
       ELSE /\ bpc' = "trade"
            /\ tradeIdx' = 1
            /\ UNCHANGED response
    /\ UNCHANGED <<inputVars, tickers, started, inFlight, signals,
                   strategySignals, effectVars, history>>

\* one iteration of the trade loop: getPositions, then buyOrder or
\* sellOrder, either of which the brokerage may fail; orders holds the
\* calls made.  After the last iteration the run completes
TradeSignal ==
    /\ bpc = "trade"
    /\ LET signal == strategySignals[tradeIdx]
           down == signal.symbol \in brokerApi.positionsDown
           rejected == signal.symbol \in brokerApi.ordersRejected
           positions == getPositions(holdings, brokerApi.urlStyle)
           placed == IF down THEN <<>>
                     ELSE OrdersFor(signal,
                                    CurrentQuantity(positions, signal.symbol),
                                    env)
           threw == /\ signal.action # "hold"
                    /\ down \/ (rejected /\ placed # <<>>)
       IN  /\ IF signal.action = "hold"
              THEN UNCHANGED <<positionQueries, orders, holdings>>
              ELSE /\ positionQueries' = positionQueries + 1
                   /\ orders' = orders \o placed
                   /\ holdings' = IF rejected THEN holdings
                                  ELSE Fill(holdings, placed)
           /\ IF TradeLoopGoesOn(tradeIdx, Len(strategySignals), threw)
              THEN /\ tradeIdx' = tradeIdx + 1
                   /\ UNCHANGED <<bpc, response>>
              ELSE /\ response' =
                         Respond(entry, "completed",
                                 IF entry = "trading"
                                 THEN "Trading bot execution completed"
                                 ELSE "Bot execution complete",
                                 signals)
                   /\ bpc' = "done"
                   /\ UNCHANGED tradeIdx
    /\ UNCHANGED <<inputVars, tickers, started, inFlight, signals,
                   strategySignals, analysisLog, sent, logins, history>>

\* the same run is triggered again; what the brokerage, the provider and
\* Telegram have seen stays
NextInvocation ==
    /\ bpc = "done"
    /\ Len(history) + 1 < MaxRuns
    /\ history' = Append(history, [response |-> response,
                                   signals |-> <<signals, strategySignals>>,
                                   orders |-> orders,
                                   holdings |-> holdings])
    /\ bpc' = "start"
    /\ tickers' = <<>>
    /\ started' = 0
    /\ inFlight' = {}
    /\ signals' = <<>>
    /\ strategySignals' = <<>>
    /\ tradeIdx' = 0
    /\ response' = Unanswered
    /\ UNCHANGED <<inputVars, effectVars>>

idleVars == <<signalVars, retryVars, previewVars, updateVars, readVars,
              scheduleVars, managerVars>>

NextBatch ==
    \/ (Begin /\ UNCHANGED idleVars)
    \/ (StartAnalysis /\ UNCHANGED idleVars)
    \/ (FinishAnalysis /\ UNCHANGED idleVars)
    \/ (Summarize /\ UNCHANGED idleVars)
    \/ (SendMessage /\ UNCHANGED idleVars)
    \/ (SendPhoto /\ UNCHANGED idleVars)
    \/ (DecideLive /\ UNCHANGED idleVars)
    \/ (Login /\ UNCHANGED idleVars)
    \/ (DecideTrades /\ UNCHANGED idleVars)
    \/ (TradeSignal /\ UNCHANGED idleVars)
    \/ (NextInvocation /\ UNCHANGED idleVars)

SpecBatch == InitBatch /\ [][NextBatch]_vars

-----------------------------------------------------------------------------
(* The preview specification *)

PreviewBodies ==
    {[via |-> via, ticker |-> ticker] :
        via \in {"route", "action"},
        ticker \in {Unset, Str(""), Str("  "), Str(" spy "), Str("SPY")}}

InitPreview ==
    /\ ScheduleOff
    /\ ManagerOff
    /\ RetryOff
    /\ BatchOff
    /\ UpdateOff
    /\ prices = <<>>
    /\ period = SMA_DAYS
    /\ smaResult = Off
    /\ analysis = Off
    /\ provider \in ProviderResponses
    /\ previewBody \in PreviewBodies
    /\ previewResponse = Unanswered

\* the whole handler; whether `body` of the try block is visible in the
\* catch block of POST depends on how the build scopes it
Preview ==
    /\ previewResponse = Unanswered
    /\ \E bodyInScope \in BOOLEAN :
          previewResponse' = previewTicker(previewBody.via, previewBody.ticker,
                                           provider, bodyInScope)
    /\ UNCHANGED <<signalVars, retryVars, batchVars, updateVars, readVars,
                   scheduleVars, managerVars, previewBody>>

NextPreview == Preview

SpecPreview == InitPreview /\ [][NextPreview]_vars

-----------------------------------------------------------------------------
(* The ticker update specification *)

\* longest tickers argument
MaxItems == 2

\* reads of the ticker list in one run
MaxReads == 2

\* no read yet
NoRead ==
    [via |-> "none", cached |-> FALSE, after |-> FALSE,
     edge |-> EdgeGet("null", <<>>),
     result |-> getTickersUncached(EdgeGet("null", <<>>),
                                   [ok |-> FALSE, tickers |-> <<>>])]

UpdateInputs ==
    {[isArray |-> FALSE, items |-> <<>>]}
    \cup {[isArray |-> TRUE, items |-> items] :
            items \in SeqsUpTo({Unset, Str(""), Str("  "), Str(" spy "),
                                Str("AAPL")}, MaxItems)}

InitUpdate ==
    /\ ScheduleOff
    /\ ManagerOff
    /\ RetryOff
    /\ SignalOff
    /\ BatchOff
    /\ PreviewOff
    /\ updateVia \in {"action", "put"}
    /\ updateInput \in UpdateInputs
    /\ updateEnv \in [EDGE_CONFIG : {Unset, Str("https://edge-config.vercel.com/ecfg_1")},
                      VERCEL_API_TOKEN : {Unset, Str("token")},
                      EDGE_CONFIG_ID : {Unset, Str("ecfg_1")}]
    /\ edgeApi \in {"ok", "rejects", "unreachable"}
    /\ remoteTickers = <<"QQQ">>
    /\ patches = 0
    /\ updateResult = Unanswered
    /\ storeRead \in {"ok", "null", "throws"}
    /\ localFile \in {[ok |-> FALSE, tickers |-> <<>>],
                      [ok |-> TRUE, tickers |-> <<"AAPL">>]}
    /\ tickerCache = <<>>
    /\ lastRead = NoRead
    /\ reads = 0

\* the handler up to await fetch(...): the validation, the checks of
\* process.env and the PATCH request
CallUpdate ==
    /\ updateResult = Unanswered
    /\ patches = 0
    /\ LET invalid == ValidationError(updateInput)
           unconfigured == ConfigError(updateEnv)
           \* the 400 and 503 bodies of PUT have no success field
           failure == IF updateVia = "put" THEN "none" ELSE "false"
       IN  IF invalid # ""
           THEN /\ updateResult' =
                      UpdateResult(updateVia, 400, failure, invalid, <<>>)
                /\ UNCHANGED patches
           ELSE IF unconfigured # ""
           THEN /\ updateResult' =
                      UpdateResult(updateVia, 503, failure, unconfigured, <<>>)
                /\ UNCHANGED patches
           ELSE /\ patches' = patches + 1
                /\ UNCHANGED updateResult
    /\ UNCHANGED <<updateVia, updateInput, updateEnv, edgeApi, remoteTickers,
                   readVars>>

\* the PATCH settles: the store takes the list when the API accepts it,
\* and updateTickers calls revalidateTag("tickers"), which PUT does not
PatchSettles ==
    /\ updateResult = Unanswered
    /\ patches = 1
    /\ LET list == [n \in 1..Len(updateInput.items) |->
                       updateInput.items[n].value]
       IN  IF edgeApi = "ok"
           THEN /\ remoteTickers' = list
                /\ updateResult' =
                      UpdateResult(updateVia, 200, "true", "", list)
                /\ tickerCache' = IF updateVia = "action" THEN <<>>
                                  ELSE tickerCache
           ELSE /\ updateResult' =
                      UpdateResult(updateVia, 500, "false",
                                   IF edgeApi = "rejects"
                                   THEN "Failed to update Edge Config"
                                   ELSE "fetch failed",
                                   <<>>)
                /\ UNCHANGED <<remoteTickers, tickerCache>>
    /\ UNCHANGED <<updateVia, updateInput, updateEnv, edgeApi, patches,
                   storeRead, localFile, lastRead, reads>>

\* a read of the ticker list: getTickers of lib/ticker-queries.ts
\* (via = "query"), which unstable_cache answers from its entry when it has
\* one, or getTickers of lib/ticker-actions.ts (via = "action")
ReadTickers ==
    /\ reads < MaxReads
    /\ reads' = reads + 1
    /\ \E via \in {"query", "action"} :
          LET edge == EdgeGet(storeRead, remoteTickers)
              hit == via = "query" /\ tickerCache # <<>>
              result == IF hit THEN tickerCache[1]
                        ELSE getTickersUncached(edge, localFile)
          IN  /\ lastRead' = [via |-> via, cached |-> hit,
                              after |-> updateResult # Unanswered,
                              edge |-> edge, result |-> result]
              /\ tickerCache' = IF via = "query" THEN <<result>>
                                ELSE tickerCache
    /\ UNCHANGED <<updateVars, storeRead, localFile>>

\* revalidate: 60: the entry of unstable_cache goes out of date
CacheExpires ==
    /\ tickerCache # <<>>
    /\ tickerCache' = <<>>
    /\ UNCHANGED <<updateVars, storeRead, localFile, lastRead, reads>>

standbyVars == <<signalVars, retryVars, batchVars, previewVars, scheduleVars,
                 managerVars>>

NextUpdate ==
    \/ (CallUpdate /\ UNCHANGED standbyVars)
    \/ (PatchSettles /\ UNCHANGED standbyVars)
    \/ (ReadTickers /\ UNCHANGED standbyVars)
    \/ (CacheExpires /\ UNCHANGED standbyVars)

SpecUpdate == InitUpdate /\ [][NextUpdate]_vars

-----------------------------------------------------------------------------
(* Claims about the batch runs, checked under SpecBatch *)

\* the first run of an endpoint has passed the secret check, has loaded
\* its tickers and has ended its loop; the events of the loop are the first
\* 2 * Len(tickers) of the log
FirstLoopDone ==
    /\ entry \in {"analysis", "trading"}
    /\ history = <<>>
    /\ bpc \notin {"start", "analyze"}
    /\ ~Unauthorized(request, env)
    /\ ~loadTickers(entry, edgeConfig, tickerFile).threw

\* the results of that loop, in the order in which they settled
FirstLoopResults ==
    LET IsResult(event) == event.kind = "result"
    IN  SelectSeq(SubSeq(analysisLog, 1, 2 * Len(tickers)), IsResult)

\* the tickers whose analysis failed in that loop
FirstLoopFailures ==
    {n \in 1..Len(FirstLoopResults) : FirstLoopResults[n].threw}

ErrorEntries(list) == {n \in 1..Len(list) : list[n].action = "error"}

\* C11 (as stated): a rate-limited (429) failure of a ticker's historical
\* price fetch is retried; so whenever an analysis has failed with the
\* provider's 429 error, the provider had been asked at least twice for that
\* ticker.
C11_RateLimitedFetchRetried ==
    \A n \in 1..Len(analysisLog) :
        (/\ analysisLog[n].kind = "result"
         /\ analysisLog[n].reason = "Too Many Requests")
            => FetchCount(SubSeq(analysisLog, 1, n), analysisLog[n].symbol) >= 2

DeliveryWorks ==
    /\ IsTruthy(env.TELEGRAM_BOT_TOKEN)
    /\ IsTruthy(env.TELEGRAM_CHAT_ID)
    /\ telegramApi.messageFails <= TELEGRAM_RETRIES
    /\ telegramApi.photoFails <= TELEGRAM_RETRIES
BrokerWorks ==
    \/ env.DRY_RUN \in {Str("true"), Str("1")}
    \/ /\ IsTruthy(env.ROBINHOOD_USERNAME)
       /\ IsTruthy(env.ROBINHOOD_PASSWORD)
       /\ brokerApi.loginOk

C13_AllFailedBatchFails ==
    (/\ FirstLoopDone
     /\ Len(tickers) > 0
     /\ Cardinality(FirstLoopFailures) = Len(tickers))
        => /\ bpc \in {"analyzed", "done"}
           /\ sent = <<>>
           /\ logins = 0
           /\ orders = <<>>
           /\ bpc = "done" =>
                 /\ response.success # "true"
                 /\ response.message = "No tickers were successfully analyzed"

\* the list names tickers in the order of the ticker list
InListOrder(list) ==
    \E at \in [1..Len(list) -> 1..Len(tickers)] :
        /\ \A n \in 1..Len(list) : list[n].symbol = tickers[at[n]]
        /\ \A n \in 1..Len(list), m \in 1..Len(list) : n < m => at[n] < at[m]

\* C14: tickers are analyzed strictly one at a time in list order: at most
\* one analysis is in flight, the n-th fetch of a loop is for the n-th
\* ticker and is answered before the next fetch starts, and the aggregate
\* lists its entries in the order of the ticker list.
C14_OneAtATimeInOrder ==
    /\ Cardinality(inFlight) <= 1
    /\ inFlight \subseteq {started}
    /\ \A n \in 1..Len(analysisLog) :
          analysisLog[n].kind = "fetch" =>
             /\ bpc # "start" =>
                   analysisLog[n].symbol = tickers[analysisLog[n].idx]
             /\ n < Len(analysisLog) =>
                   /\ analysisLog[n + 1].kind = "result"
                   /\ analysisLog[n + 1].idx = analysisLog[n].idx
             /\ n = Len(analysisLog) => inFlight = {analysisLog[n].idx}
             /\ n > 2 => analysisLog[n].idx \in {1, analysisLog[n - 2].idx + 1}
    /\ InListOrder(signals)
    /\ InListOrder(strategySignals)

\* C14 witness: both tickers of a list of two different symbols have been
\* analyzed, and the second fetch came after the first result
C14_Witness ==
    /\ bpc = "analyzed"
    /\ Len(tickers) = 2
    /\ tickers[1] # tickers[2]
    /\ Len(signals) = 2
    /\ Len(analysisLog) = 4
    /\ analysisLog[2].kind = "result"
    /\ analysisLog[3].kind = "fetch"
    /\ analysisLog[3].symbol = tickers[2]

-----------------------------------------------------------------------------
(* Claims about the ticker preview, checked under SpecPreview *)

\* the preview got as far as analyzeTicker
PreviewAnalyzed ==
    /\ previewResponse # Unanswered
    /\ IsTruthy(previewBody.ticker)
    /\ previewBody.ticker.value # "  "

\* the provider does not know the symbol: it reports not-found, or it
\* answers no data
SymbolUnrecognized ==
    \/ provider.kind = "null"
    \/ provider.kind = "rows" /\ Len(provider.closes) = 0
    \/ /\ provider.kind = "throws"
       /\ provider.error.text \in {"Not Found",
                                    "No data found, symbol may be delisted"}

\* C15: when the historical fetch fails because the symbol is
\* unrecognized (the provider reports not-found or returns no data), the
\* preview reports the not-found outcome, the friendly "Ticker ... not
\* found" message, with status 404 on the preview endpoint, not the generic
\* error outcome.
C15_UnknownSymbolIsNotFound ==
    (PreviewAnalyzed /\ SymbolUnrecognized) =>
        /\ previewResponse.error =
              "Ticker \"${ticker}\" not found. Please verify the symbol is correct."
        /\ previewBody.via = "route" => previewResponse.status = 404

-----------------------------------------------------------------------------
(* Further claims about the batch runs, checked under SpecBatch *)

\* the Telegram credentials are missing, or the Telegram API has rejected
\* the latest attempt
DeliveryFailed ==
    \/ ~IsTruthy(env.TELEGRAM_BOT_TOKEN)
    \/ ~IsTruthy(env.TELEGRAM_CHAT_ID)
    \/ sent # <<>> /\ ~sent[Len(sent)].ok

\* C16: when at least one ticker was analyzed and the delivery fails
\* (missing messaging credentials included), the analysis endpoint answers
\* with the delivery-failure outcome, which carries the analyses and differs
\* from "Market analysis failed"; a delivery failure is never reported as an
\* analysis failure, nor an analysis failure as a delivery failure.
C16_DeliveryFailureIsDistinct ==
    (entry = "analysis" /\ bpc = "done" /\ ~Unauthorized(request, env)) =>
        LET reportsDelivery ==
                response.error = "Failed to send Telegram notification"
            reportsAnalysis == response.error = "Market analysis failed"
        IN  /\ (Len(signals) > 0 /\ DeliveryFailed) =>
                  /\ reportsDelivery
                  /\ response.status = 500
                  /\ response.success = "false"
                  /\ response.carries
                  /\ response.list = signals
            /\ reportsDelivery => (Len(signals) > 0 /\ DeliveryFailed)
            /\ reportsAnalysis => Len(signals) = 0
            /\ Len(signals) = 0 => reportsAnalysis

\* C16 witness: a ticker was analyzed, the message went out, the photo was
\* rejected on every attempt, and the endpoint has answered
C16_Witness ==
    /\ entry = "analysis"
    /\ bpc = "done"
    /\ Len(signals) > 0
    /\ Len(sent) > 1
    /\ sent[1].ok
    /\ sent[Len(sent)].kind = "photo"
    /\ ~sent[Len(sent)].ok
    /\ response.error = "Failed to send Telegram notification"

\* the endpoint has rejected the request with 401 Unauthorized
Rejected ==
    /\ bpc = "done"
    /\ response.status = 401
    /\ response.error = "Unauthorized"

\* nothing was loaded, analyzed, delivered or ordered
NothingDone ==
    /\ tickers = <<>>
    /\ analysisLog = <<>>
    /\ sent = <<>>
    /\ logins = 0
    /\ positionQueries = 0
    /\ orders = <<>>

\* C17 (as stated): an endpoint rejects with 401 Unauthorized, before it
\* loads tickers, analyzes, delivers or orders, if and only if the
\* user-agent contains "vercel-cron" or the x-vercel-cron header is present,
\* CRON_SECRET is configured, and the Authorization header is not exactly
\* "Bearer <secret>".
C17_RejectsSchedulerWithoutSecret ==
    (entry \in {"analysis", "trading"} /\ bpc # "start") =>
        (Rejected <=>
            /\ \/ request.userAgent = Str("vercel-cron/1.0")
               \/ request.xVercelCron.present
            /\ env.CRON_SECRET.present
            /\ request.authorization # Str("Bearer s3cret"))

\* C17 (amended): an endpoint rejects with 401 Unauthorized, before it
\* loads tickers, analyzes, delivers or orders, if and only if the
\* user-agent contains "vercel-cron" or the x-vercel-cron header is present
\* with a non-empty value, CRON_SECRET is set to a non-empty value, and the
\* Authorization header is not exactly "Bearer <secret>"; a request without
\* scheduler markers is never rejected by the secret check.
C17_RejectsMarkedRequestWithoutSecret ==
    (entry \in {"analysis", "trading"} /\ bpc # "start") =>
        /\ Rejected <=>
              /\ \/ request.userAgent = Str("vercel-cron/1.0")
                 \/ request.xVercelCron = Str("1")
              /\ env.CRON_SECRET = Str("s3cret")
              /\ request.authorization # Str("Bearer s3cret")
        /\ Rejected => NothingDone
        /\ (request.userAgent # Str("vercel-cron/1.0")
               /\ ~request.xVercelCron.present) => ~Rejected

\* C17 witness: a request marked by the x-vercel-cron header only, with a
\* wrong bearer token, has been rejected
C17_Witness ==
    /\ Rejected
    /\ NothingDone
    /\ request.userAgent # Str("vercel-cron/1.0")
    /\ request.xVercelCron = Str("1")
    /\ request.authorization = Str("Bearer wrong")

\* the run is a dry run: DRY_RUN is "true" or "1" for the trading endpoint,
\* "true" for the script
DryRunMode ==
    \/ entry = "trading" /\ env.DRY_RUN \in {Str("true"), Str("1")}
    \/ entry = "script" /\ env.DRY_RUN = Str("true")

\* the run has completed, every ticker was analyzed in it, and an endpoint
\* has reported one entry per ticker
AnalyzedAndReported ==
    LET IsResult(event) == event.kind = "result"
    IN  /\ Len(SelectSeq(analysisLog, IsResult)) =
              (Len(history) + 1) * Len(tickers)
        /\ entry = "trading" =>
              /\ response.success = "true"
              /\ response.carries
              /\ Len(response.list) = Len(tickers)

\* the run has got through to the end of its work
Completed ==
    /\ bpc = "done"
    /\ response.status \in {0, 200}

\* C18: in a dry run, analysis is performed and signals are reported, but
\* no order is placed, no position is queried and no brokerage login
\* occurs.
C18_DryRunNeverTouchesBroker ==
    DryRunMode =>
        /\ orders = <<>>
        /\ positionQueries = 0
        /\ logins = 0
        /\ Completed => AnalyzedAndReported

\* what a dry run does keep to: no order is placed and no position is
\* queried; the trading endpoint does not log in, the script has logged in
\* before it analyzes
DryRunPlacesNoOrder ==
    DryRunMode =>
        /\ orders = <<>>
        /\ positionQueries = 0
        /\ entry = "trading" => logins = 0
        /\ (entry = "script" /\ analysisLog # <<>>) => logins > 0
        /\ Completed => AnalyzedAndReported

\* the provider answers every request for a ticker of the list alike
SameMarketData ==
    \A n \in 1..Len(tickers) : market[tickers[n]] \notin {"limited", "turns"}

\* the latest earlier run
Before == history[Len(history)]

-----------------------------------------------------------------------------
(* Claims about the ticker update, checked under SpecUpdate *)

\* the input is an array whose every entry is a string with something other
\* than white space in it
ValidInput ==
    /\ updateInput.isArray
    /\ \A n \in 1..Len(updateInput.items) :
          /\ updateInput.items[n].present
          /\ updateInput.items[n].value \notin {"", "  "}

\* C19: the ticker update (updateTickers and PUT) succeeds only if the
\* input is an array whose every entry is a string that is non-empty after
\* trimming; otherwise it returns a failure, issues no write to the remote
\* configuration store and leaves the stored ticker list unchanged.
C19_InvalidInputNeverWritten ==
    /\ updateResult.success = "true" =>
          /\ ValidInput
          /\ patches = 1
          /\ remoteTickers = updateResult.list
    /\ (updateVia # "off" /\ ~ValidInput) =>
          /\ patches = 0
          /\ remoteTickers = <<"QQQ">>
          /\ updateResult # Unanswered =>
                /\ updateResult.success \in {"false", "none"}
                /\ updateResult.error \in
                      {"Tickers must be an array",
                       "All tickers must be non-empty strings"}
                /\ updateVia = "put" => updateResult.status = 400
                /\ updateVia = "action" => updateResult.success = "false"

\* C19 witness: PUT has refused a list with a blank entry after a good one,
\* with the store configured and reachable
C19_Witness ==
    /\ updateVia = "put"
    /\ updateInput = [isArray |-> TRUE, items |-> <<Str("AAPL"), Str("  ")>>]
    /\ ConfigError(updateEnv) = ""
    /\ edgeApi = "ok"
    /\ updateResult # Unanswered
    /\ updateResult.status = 400
    /\ patches = 0
    /\ remoteTickers = <<"QQQ">>

-----------------------------------------------------------------------------
(* Claims about the reads of the ticker list, checked under SpecUpdate *)

\* C21: after a ticker-list update has succeeded with list L, a read
\* through getTickers of lib/ticker-queries.ts that starts after the update
\* has completed returns L, not a list cached before the update.
C21_ReadAfterUpdateIsFresh ==
    (/\ updateResult.success = "true"
     /\ lastRead.via = "query"
     /\ lastRead.after
     /\ storeRead = "ok") =>
        lastRead.result.tickers = updateResult.list

\* what does hold: a read after a successful updateTickers is not answered
\* from an entry cached before it
ActionUpdateInvalidates ==
    (/\ updateVia = "action"
     /\ updateResult.success = "true"
     /\ lastRead.via = "query"
     /\ lastRead.after
     /\ storeRead = "ok") =>
        lastRead.result.tickers = updateResult.list

\* C23: the read of the ticker list never fails: it returns the remote list
\* tagged "edge-config" when the remote store answers an array, otherwise
\* the list of the local file tagged "file" (with the remote error attached
\* when the remote read threw), and an empty list tagged "file" with an
\* error message when neither the remote store nor the file is available.
C23_ReadNeverFails ==
    (lastRead.via # "none" /\ ~lastRead.cached) =>
        LET got == lastRead.result
        IN  /\ lastRead.edge.kind = "list" =>
                  got = [tickers |-> lastRead.edge.tickers,
                         source |-> "edge-config", error |-> Unset]
            /\ (lastRead.edge.kind # "list" /\ localFile.ok) =>
                  /\ got.tickers = localFile.tickers
                  /\ got.source = "file"
                  /\ got.error.present <=> lastRead.edge.kind = "throws"
            /\ (lastRead.edge.kind # "list" /\ ~localFile.ok) =>
                  got = [tickers |-> <<>>, source |-> "file",
                         error |-> Str("Failed to load tickers from both Edge Config and file")]

\* C23 witness: Edge Config has thrown and the read has returned the list
\* of the file with the error attached
C23_Witness ==
    /\ lastRead.via = "action"
    /\ lastRead.edge.kind = "throws"
    /\ lastRead.result.source = "file"
    /\ lastRead.result.tickers = <<"AAPL">>
    /\ lastRead.result.error.present

\* C27: for every state of the remote store and of the local file, the
\* list getTickers returns for the dashboard equals the list that
\* loadTickers of the analysis endpoint gives for the same state, an empty
\* array in the remote store included.
C27_DashboardMatchesAnalysis ==
    (lastRead.via # "none" /\ ~lastRead.cached) =>
        LET loaded == loadTickers("analysis", lastRead.edge, localFile)
        IN  ~loaded.threw => loaded.value = lastRead.result.tickers

-----------------------------------------------------------------------------
(* The scheduled analysis endpoint: the weekly cron (Fridays) and the       *)
(* month-end cron (days 28 to 31) trigger the same GET                      *)

\* the dates a cron triggers the endpoint on: getDay() is 5 on a Friday
Triggers ==
    {[cron |-> "weekly", weekday |-> 5, day |-> day, monthLength |-> len] :
        day \in 1..31, len \in 28..31}
    \cup
    {[cron |-> "monthEnd", weekday |-> weekday, day |-> day,
      monthLength |-> len] :
        weekday \in 0..6, day \in 28..31, len \in 28..31}

InitSchedule ==
    /\ RetryOff
    /\ SignalOff
    /\ BatchOff
    /\ PreviewOff
    /\ UpdateOff
    /\ ManagerOff
    /\ today \in {date \in Triggers : date.day <= date.monthLength}
    /\ schedule = "pending"

\* GET up to the try block: the trigger is answered "Skipped - not the last
\* day of the month", or the analysis starts
Trigger ==
    /\ schedule = "pending"
    /\ schedule' = IF SkipsTrigger(today) THEN "skipped" ELSE "runs"
    /\ UNCHANGED <<today, signalVars, retryVars, batchVars, previewVars,
                   updateVars, readVars, managerVars>>

NextSchedule == Trigger

SpecSchedule == InitSchedule /\ [][NextSchedule]_vars

-----------------------------------------------------------------------------
(* Claims about the schedule, checked under SpecSchedule *)

\* C22: the scheduled analysis endpoint runs on every Friday trigger, and
\* on a trigger of day 28 to 31 that is not a Friday trigger it runs only
\* when that day is the last day of the month; a Friday trigger is never
\* skipped.
C22_FridayNeverSkipped ==
    schedule \notin {"off", "pending"} =>
        /\ today.weekday = 5 => schedule = "runs"
        /\ (today.weekday # 5 /\ today.day \in 28..31) =>
              (schedule = "runs" <=> today.day = today.monthLength)

\* what does hold: a trigger is skipped exactly on a day 28 to 31 that is
\* not the last day of its month, whatever the weekday
SkippedBeforeMonthEnd ==
    schedule \notin {"off", "pending"} =>
        (schedule = "skipped" <=>
            today.day \in 28..31 /\ today.day # today.monthLength)

-----------------------------------------------------------------------------
(* The ticker manager of the dashboard *)

\* longest pending list
MaxPending == 3
\* previewTicker calls awaited at once
MaxPreviews == 2

\* pendingTickers.includes(ticker)
Includes(list, ticker) == \E n \in 1..Len(list) : list[n] = ticker

\* no symbol twice
NoDuplicates(list) ==
    \A m, n \in 1..Len(list) : list[m] = list[n] => m = n

\* JSON.stringify(initialTickers) !== JSON.stringify(pendingTickers)
hasChanges == initialTickers # pendingTickers

InitManager ==
    /\ RetryOff
    /\ SignalOff
    /\ BatchOff
    /\ PreviewOff
    /\ UpdateOff
    /\ ScheduleOff
    /\ initialTickers \in {list \in SeqsUpTo(Symbols, 2) : NoDuplicates(list)}
    /\ pendingTickers = initialTickers
    /\ previewData = Unset
    /\ previewCalls = <<>>

\* handlePreviewTicker up to its await, for the symbol typed (Enter calls it
\* while another preview is loading)
handlePreviewTicker ==
    /\ Len(previewCalls) < MaxPreviews
    /\ \E normalizedTicker \in Symbols :
          /\ ~Includes(pendingTickers, normalizedTicker)
          /\ previewCalls' = Append(previewCalls, normalizedTicker)
    /\ previewData' = Unset
    /\ UNCHANGED <<initialTickers, pendingTickers>>

\* a previewTicker call settles: setPreviewData on success, setPreviewError
\* otherwise
PreviewSettles ==
    \E n \in 1..Len(previewCalls), success \in BOOLEAN :
        /\ previewCalls' = [m \in 1..(Len(previewCalls) - 1) |->
                               IF m < n THEN previewCalls[m]
                               ELSE previewCalls[m + 1]]
        /\ previewData' = IF success THEN Str(previewCalls[n]) ELSE previewData
        /\ UNCHANGED <<initialTickers, pendingTickers>>

\* addTickerToPending: the button shows while previewData is set
addTickerToPending ==
    /\ previewData.present
    /\ Len(pendingTickers) < MaxPending
    /\ pendingTickers' = Append(pendingTickers, previewData.value)
    /\ previewData' = Unset
    /\ UNCHANGED <<initialTickers, previewCalls>>

\* removeTickerFromPending(ticker)
removeTickerFromPending ==
    /\ \E ticker \in Symbols :
          LET Other(t) == t # ticker
          IN  /\ Includes(pendingTickers, ticker)
              /\ pendingTickers' = SelectSeq(pendingTickers, Other)
    /\ UNCHANGED <<initialTickers, previewData, previewCalls>>

\* the Cancel button: setPendingTickers(initialTickers)
CancelChanges ==
    /\ hasChanges
    /\ pendingTickers' = initialTickers
    /\ UNCHANGED <<initialTickers, previewData, previewCalls>>

\* handleSaveTickers: after a successful save router.refresh() renders the
\* page with the saved list as initialTickers
SaveChanges ==
    /\ hasChanges
    /\ \E success \in BOOLEAN :
          initialTickers' = IF success THEN pendingTickers ELSE initialTickers
    /\ UNCHANGED <<pendingTickers, previewData, previewCalls>>

dormantVars == <<signalVars, retryVars, batchVars, previewVars, updateVars,
                 readVars, scheduleVars>>

NextManager ==
    \/ (handlePreviewTicker /\ UNCHANGED dormantVars)
    \/ (PreviewSettles /\ UNCHANGED dormantVars)
    \/ (addTickerToPending /\ UNCHANGED dormantVars)
    \/ (removeTickerFromPending /\ UNCHANGED dormantVars)
    \/ (CancelChanges /\ UNCHANGED dormantVars)
    \/ (SaveChanges /\ UNCHANGED dormantVars)

SpecManager == InitManager /\ [][NextManager]_vars

-----------------------------------------------------------------------------
(* Claims about the ticker manager, checked under SpecManager *)

\* C28: starting from an initial list without duplicates, after any
\* sequence of preview, add-to-list, remove and cancel actions, with preview
\* responses arriving in any order, the pending ticker list never contains
\* the same symbol twice.
C28_PendingHasNoDuplicates == NoDuplicates(pendingTickers)

-----------------------------------------------------------------------------
(* Claims about the trade phase and the delivery, checked under SpecBatch *)

\* the run trades: it is a run of the trading endpoint or of the script and
\* no dry run
LiveRun == entry \in {"trading", "script"} /\ ~DryRunMode

\* C24: in the live trade phase at most one order is placed per signal:
\* none for a hold signal; for a buy signal one market buy of
\* floor(TRADE_AMOUNT / currentPrice) shares (TRADE_AMOUNT defaulting to
\* 1000), only when that quantity is greater than 0; for a sell signal one
\* market sell of the whole quantity held of that symbol, only when that
\* quantity is greater than 0.
C24_AtMostOneOrderPerSignal ==
    [][bpc = "trade" =>
        LET signal == strategySignals[tradeIdx]
            new == SubSeq(orders', Len(orders) + 1, Len(orders'))
            dollars == IF env.TRADE_AMOUNT = Unset THEN 1000 ELSE 50
            shares == (dollars * signal.currentPrice.den)
                          \div signal.currentPrice.num
            held == holdings[signal.symbol]
            asked == signal.symbol \notin brokerApi.positionsDown
            Market(side, quantity) ==
                [symbol |-> signal.symbol, quantity |-> Int2Js(quantity),
                 side |-> side, orderType |-> "market"]
        IN  /\ Len(new) <= 1
            /\ SubSeq(orders', 1, Len(orders)) = orders
            /\ signal.action \in {"buy", "sell", "hold"}
            /\ signal.action = "hold" => new = <<>>
            /\ signal.action = "buy" =>
                  /\ new # <<>> => (shares > 0 /\ new[1] = Market("buy", shares))
                  /\ (shares > 0 /\ asked) => new # <<>>
            /\ signal.action = "sell" =>
                  /\ new # <<>> => (held > 0 /\ new[1] = Market("sell", held))
                  /\ (held > 0 /\ asked /\ brokerApi.urlStyle = "symbol") =>
                        new # <<>>]_vars

\* C24 witness: a live run has bought 9 shares of AAPL for 1000 dollars and
\* sold the 5 shares of SPY held
C24_Witness ==
    /\ LiveRun
    /\ bpc = "done"
    /\ history = <<>>
    /\ env.TRADE_AMOUNT = Unset
    /\ Len(orders) = 2
    /\ orders[1] = [symbol |-> "AAPL", quantity |-> Int2Js(9),
                    side |-> "buy", orderType |-> "market"]
    /\ orders[2] = [symbol |-> "SPY", quantity |-> Int2Js(5),
                    side |-> "sell", orderType |-> "market"]
    /\ holdings = [symbol \in Symbols |-> IF symbol = "AAPL" THEN 9 ELSE 0]

\* C25: in a live request to the trading endpoint, every order placed for a
\* symbol has the side of the signal the response reports for that symbol,
\* and no order is placed for a symbol the response reports as hold or
\* error, even when market data changes during the request.
C25_OrdersFollowReportedSignals ==
    (entry = "trading" /\ LiveRun /\ bpc = "done" /\ history = <<>>
        /\ response.carries) =>
        \A k \in 1..Len(orders) :
            \E n \in 1..Len(response.list) :
                /\ response.list[n].symbol = orders[k].symbol
                /\ response.list[n].action = orders[k].side

\* what does hold: every order has the side of a signal of
\* executeTradingStrategy, which analyzes the tickers again
OrdersFollowStrategySignals ==
    (LiveRun /\ bpc = "done" /\ history = <<>>) =>
        \A k \in 1..Len(orders) :
            \E n \in 1..Len(strategySignals) :
                /\ strategySignals[n].symbol = orders[k].symbol
                /\ strategySignals[n].action = orders[k].side

\* C26: for every value of DRY_RUN the script and the trading endpoint
\* agree on whether the run is a dry run: when one of them takes the value
\* for a dry run and places no orders, so does the other.
C26_SameDryRunDecision ==
    (entry \in {"trading", "script"}
        /\ (EndpointDryRun(env) \/ ScriptDryRun(env))) =>
        orders = <<>>

\* signals of a list that are not hold signals
Tradable(list) ==
    LET NotHold(signal) == signal.action # "hold"
    IN  SelectSeq(list, NotHold)

\* C29: in the live trade phase a failure of getPositions or of the order
\* of one signal is caught: every later signal is still processed, and
\* executeTradingStrategy completes without raising an error.
C29_TradeFailuresAreIsolated ==
    (LiveRun /\ history = <<>> /\ logins = 1 /\ brokerApi.loginOk) =>
        /\ bpc = "trade" =>
              positionQueries = Len(Tradable(SubSeq(strategySignals, 1,
                                                     tradeIdx - 1)))
        /\ bpc = "done" =>
              /\ Completed
              /\ positionQueries = Len(Tradable(strategySignals))
              /\ \A n \in 1..Len(strategySignals) :
                    LET signal == strategySignals[n]
                    IN  (/\ signal.action = "buy"
                         /\ env.TRADE_AMOUNT = Unset
                         /\ signal.symbol \notin brokerApi.positionsDown) =>
                            \E k \in 1..Len(orders) :
                                orders[k].symbol = signal.symbol

\* C29 witness: getPositions has failed for the first signal (AAPL), the
\* order of the second (SPY) was placed, and the run has completed
C29_Witness ==
    /\ LiveRun
    /\ history = <<>>
    /\ bpc = "done"
    /\ Completed
    /\ Len(strategySignals) = 2
    /\ strategySignals[1].action = "buy"
    /\ brokerApi.positionsDown = {"AAPL"}
    /\ positionQueries = 2
    /\ Len(orders) = 1
    /\ orders[1].symbol = "SPY"

\* C30: in the delivery step of the analysis endpoint the photo is sent
\* only after the text message has been delivered: when the message fails
\* after its retries no photo is attempted, and the message is never sent
\* after the photo.
C30_PhotoOnlyAfterMessage ==
    (entry = "analysis" /\ history = <<>>) =>
        LET Delivered(k) == sent[k].kind = "message" /\ sent[k].ok
        IN  /\ \A k \in 1..Len(sent) :
                  sent[k].kind = "photo" =>
                      /\ \E j \in 1..(k - 1) : Delivered(j)
                      /\ \A j \in (k + 1)..Len(sent) : sent[j].kind = "photo"
            /\ (bpc = "done" /\ sent # <<>>
                   /\ ~\E k \in 1..Len(sent) : Delivered(k)) =>
                  /\ Len(sent) = TELEGRAM_RETRIES + 1
                  /\ response.error = "Failed to send Telegram notification"

\* C30 witness: the message was rejected twice and delivered on the third
\* attempt, and the photo was attempted after it
C30_Witness ==
    /\ entry = "analysis"
    /\ history = <<>>
    /\ bpc = "done"
    /\ Len(sent) > 3
    /\ ~sent[1].ok
    /\ ~sent[2].ok
    /\ sent[3] = [kind |-> "message", ok |-> TRUE]
    /\ sent[4].kind = "photo"

====
